---- MODULE Spec2Model ----
(***************************************************************************)
(* A model of the letta-code-sdk session engine: the SubprocessTransport   *)
(* (src/src/transport.ts) and the Session with its background pump,        *)
(* bounded stream queue, control-response waiters and can_use_tool         *)
(* handling (src/unnamed/part_002, the session module).                    *)
(*                                                                         *)
(* JavaScript runs one synchronous segment at a time, so every action is   *)
(* one synchronous segment of the code: from a call or a resumption after  *)
(* an await up to the next await that really suspends.  A task that was    *)
(* handed a value (a resolved promise) holds it in its record until its    *)
(* continuation runs as a later action.                                    *)
(***************************************************************************)
EXTENDS Integers, Sequences, FiniteSets, TLC

\* ------------------------------------------------------------------ bounds

\* Lines the worker writes to its stdout in one behaviour.
MaxWire == 2

\* Lines the worker writes in the control-channel specification.
MaxCtlWire == 3

\* Lines the worker writes in the control-request specification.
MaxReqWire == 3

\* Lines the worker has written when it stops in the draining specification.
MaxDrainWire == 4

\* Lines the worker has written when it stops in the pump-only specification.
MaxPumpWire == 103

\* Lines the worker has written when it stops in the turn specification.
MaxTurnWire == 4

\* Lines the worker has written when it stops in the host-call specification.
MaxHostWire == 2

\* abort() calls the host makes in the host-call specification.
MaxAborts == 1

\* abort() calls the host makes in the request-id specification.
MaxBurst == 2

\* Lines the worker has written when it stops in the tool-call specification.
MaxToolWire == 4

\* Lines the worker has written when it stops in the routing specification.
MaxRouteWire == 4

\* Lines the worker has written when it stops in the pump-ownership
\* specification.
MaxLifeWire == 3

\* Lines the worker has written when it stops in the specification of host
\* calls on a session that may be gone.
MaxGoneWire == 2

\* abort() calls of each outcome the host makes in that specification.
MaxGoneAborts == 1

\* Lines the worker has written when it stops in the specification of raw
\* stdout lines.
MaxLineWire == 4

\* Lines the worker has written when it stops in the classifier
\* specification.
MaxClassWire == 5

\* Lines the worker has written when it stops in the specification of
\* tool-call argument texts.
MaxArgsWire == 4

\* Lines the worker writes in the permission specification.
MaxPermWire == 3

\* Events the pump pushes in the buffer-only specification.
MaxPush == 121

\* Pops the consumers make in the buffer-only specification.
MaxPops == 3

\* ------------------------------------------------------- program constants

MAX_BUFFERED_STREAM_MESSAGES == 100

\* --------------------------------------------------------------- universes

\* The tasks that read the transport: the background pump, an initialize() the
\* host calls, and the initialize() a send() runs on an uninitialized session.
Readers == {"pump", "init", "send"}

\* stream() iterations the host runs, and listMessages() calls it makes.
Consumers == {1, 2}
Lists == {1, 2}

\* Tool names; "AskAndPlan" stands for a tool in both policy sets.
ToolNames == {"Bash", "AskUserQuestion", "EnterPlanMode", "AskAndPlan"}

PermissionModes == {"default", "bypassPermissions"}

\* External tools a host may register, and the names the worker may ask for.
ExternalTools == {"search"}
ExternalToolNames == {"search", "missing"}

\* What a registered tool's execute() does: it returns a result or throws.
ExecuteOutcomes == {"executed", "executeThrew"}

\* What the host's canUseTool callback does with a request: it returns allow
\* or deny, throws an Error, or throws a value that is not an Error.
CallbackOutcomes == {"allow", "deny", "throw", "throwValue"}

\* A field the worker left out of an envelope (undefined).
UNDEFINED == "undefined"

\* The tool call ids and the positions in tool_calls the worker uses.
CallIds == {"call-1", "call-2"}
Positions == {0, 1}

\* The argument text of a tool call, a character per element, and the
\* fragments the worker cuts it into: {"command":"echo hi"} as {e h }.
FragmentTexts == {<<"{", "e">>, <<"h", "}">>, <<"{", "e", "h", "}">>}

NULL == [type |-> "null", sub |-> "-", rid |-> <<>>, tool |-> "-", n |-> 0]

\* ------------------------------------------------------------------- state

VARIABLES
    \* the worker process as the operating system sees it
    worker,               \* "none" | "running" | "exited"
    wireCount,            \* lines the worker has written so far
    \* SubprocessTransport
    process,              \* this.process is set (TRUE) or null (FALSE)
    closed,               \* this.closed
    messageQueue,         \* this.messageQueue
    messageResolvers,     \* this.messageResolvers: the readers blocked in read()
    stdin,                \* what write() has put on the worker's stdin, in order
    \* Session
    options,              \* [permissionMode, hasCallback, tools]
    initialized,          \* this.initialized
    agentId,              \* this._agentId (with session and conversation id)
    streamQueue,          \* this.streamQueue
    streamResolvers,      \* this.streamResolvers: consumers blocked in nextBufferedMessage()
    pumpPromise,          \* this.pumpPromise is set
    pumpClosed,           \* this.pumpClosed
    droppedStreamMessages,
    controlResponseWaiters, \* request id -> the listMessages() call that waits
    \* tasks
    reader,               \* per reader: [pc, msg]
    consumer,             \* per stream() iteration: [pc, last]
    list,                 \* per listMessages() call: [pc, rid, outcome]
    \* history
    yielded,              \* <<consumer, event>> in the order stream() yielded them
    resolved,             \* per listMessages() call: times its resolver was invoked
    callbacks,            \* <<request id, outcome>> of every callback or executor call
    asked,                \* the control requests, tool-call fragments and lines without an
                          \* envelope the worker has written
    pushed,               \* events handed to enqueueStreamMessage so far
    pops,                 \* nextBufferedMessage() calls so far
    aborts                \* the outcome of every abort() call, in call order

transportVars == <<process, closed, messageQueue, messageResolvers, stdin>>
sessionVars == <<options, initialized, agentId, streamQueue, streamResolvers,
                 pumpPromise, pumpClosed, droppedStreamMessages, controlResponseWaiters>>
taskVars == <<reader, consumer, list>>
historyVars == <<yielded, resolved, callbacks, asked, pushed, pops, aborts>>
vars == <<worker, wireCount, transportVars, sessionVars, taskVars, historyVars>>

\* --------------------------------------------------------------- envelopes

Range(s) == {s[i] : i \in DOMAIN s}

Envelope(type, sub, rid, tool, n) ==
    [type |-> type, sub |-> sub, rid |-> rid, tool |-> tool, n |-> n]

\* {"type":"system","subtype":"init", agent_id, session_id, conversation_id, ...}
InitMessage(n) == Envelope("system", "init", <<>>, "-", n)

\* {"type":"message","message_type":"assistant_message","content":"msg-n"}
AssistantMessage(n) == Envelope("message", "assistant_message", <<>>, "-", n)

\* {"type":"message","message_type":"reasoning_message","reasoning":"done"}
ReasoningMessage(n) == Envelope("message", "reasoning_message", <<>>, "-", n)

\* {"type":"message","message_type":"tool_call_message",
\*  "tool_calls":[{"name":"Bash","arguments":arguments,"tool_call_id":id,"index":index}]}
\* with id UNDEFINED and index <<>> when the worker leaves them out.
ToolCallMessage(id, index, arguments, n) ==
    [type |-> "message", sub |-> "tool_call_message", rid |-> <<>>, tool |-> "Bash",
     n |-> n, toolCallId |-> id, index |-> index, arguments |-> arguments]

\* {"type":"message","message_type":"approval_request_message",
\*  "tool_call":{"name":"Read","arguments":arguments,"tool_call_id":id}}
ApprovalRequestMessage(id, arguments, n) ==
    [type |-> "message", sub |-> "approval_request_message", rid |-> <<>>, tool |-> "Read",
     n |-> n, toolCallId |-> id, index |-> <<>>, arguments |-> arguments]

\* {"type":"result","subtype":"success"}
ResultMessage(n) == Envelope("result", "success", <<>>, "-", n)

\* {"type":"error","message":"boom","stop_reason":"error"}
ErrorMessage(n) == Envelope("error", "-", <<>>, "-", n)

\* {"type":"retry","reason":"transient","attempt":1,"max_attempts":3,"delay_ms":10}
RetryMessage(n) == Envelope("retry", "-", <<>>, "-", n)

\* {"type":"stream_event","event":{...}}
StreamEventMessage(n) == Envelope("stream_event", "-", <<>>, "-", n)

\* {"type":"message","message_type":"tool_return_message","tool_call_id":"call-1",
\*  "tool_return":"ok","status":"success"}
ToolReturnMessage(n) == Envelope("message", "tool_return_message", <<>>, "-", n)

\* {"type":"message","message_type":"user_message"}: a message type the
\* classifier has no branch for.
UserMessage(n) == Envelope("message", "user_message", <<>>, "-", n)

\* {"type":"heartbeat"}: an envelope type the classifier has no branch for.
HeartbeatMessage(n) == Envelope("heartbeat", "-", <<>>, "-", n)

\* {"type":"control_request","request_id":rid,"request":{"subtype":"set_model"}}:
\* a control request of a subtype the session does not handle.
UnsupportedRequest(rid) == Envelope("control_request", "set_model", rid, "-", 0)

\* {"type":"control_request","request_id":rid,"request":{"subtype":"can_use_tool","tool_name":tool}}
CanUseToolRequest(rid, tool) == Envelope("control_request", "can_use_tool", rid, tool, 0)

\* {"type":"control_request","request_id":rid,
\*  "request":{"subtype":"execute_external_tool","tool_name":tool}}
ExecuteExternalToolRequest(rid, tool) ==
    Envelope("control_request", "execute_external_tool", rid, tool, 0)

\* {"type":"control_response","response":{"subtype":sub,"request_id":rid}}
ControlResponse(rid, sub) == Envelope("control_response", sub, rid, "-", 0)

\* What write() serializes onto stdin.
Written(type, sub, rid, behavior, message) ==
    [type |-> type, sub |-> sub, rid |-> rid, behavior |-> behavior, message |-> message]

\* The request id listMessages() call l draws: `list-${Date.now()}-${random}`.
\* The timestamp and random suffix are idealised as a fresh value per call.
ListRequestId(l) == <<"list", l>>

\* ------------------------------------------------------ interactiveToolPolicy

requiresRuntimeUserInput(toolName) == toolName \in {"AskUserQuestion", "AskAndPlan"}

isHeadlessAutoAllowTool(toolName) == toolName \in {"EnterPlanMode", "AskAndPlan"}

\* ---------------------------------------------------------------- transport

\* SubprocessTransport.read(): the queued message, end (null) when closed, or a
\* new blocked reader.
read(r) ==
    IF Len(messageQueue) > 0
    THEN [task |-> [pc |-> "have", msg |-> Head(messageQueue)],
          queue |-> Tail(messageQueue), resolvers |-> messageResolvers]
    ELSE IF closed
    THEN [task |-> [pc |-> "have", msg |-> NULL],
          queue |-> messageQueue, resolvers |-> messageResolvers]
    ELSE [task |-> [pc |-> "wait", msg |-> NULL],
          queue |-> messageQueue, resolvers |-> Append(messageResolvers, r)]

\* A write that never throws.
writeNeverThrows == FALSE

\* SubprocessTransport.write() throws when there is no process or it is closed.
writeThrows == ~process \/ closed

\* A handler that leaves the blocked readers as they are.
KeepReaders(resolvers) == reader

\* The readers of `resolvers` each resolved with null.
FlushReaders(resolvers) ==
    [r \in Readers |->
        IF r \in Range(resolvers) THEN [pc |-> "have", msg |-> NULL] ELSE reader[r]]

\* ------------------------------------------------------------ output buffer

\* An iteration that goes on after a result.
ReceivedKeepsGoing(rec, msg) ==
    IF msg = NULL THEN [pc |-> "done", last |-> rec.last]
    ELSE [pc |-> "idle", last |-> msg.type]

\* What the record of a stream() iteration becomes when nextBufferedMessage()
\* gives it `msg`: null ends the iteration, a result is yielded and ends it,
\* anything else is yielded and the host asks for the next one.
Received(rec, msg) ==
    IF msg = NULL THEN [pc |-> "done", last |-> rec.last]
    ELSE IF msg.type = "result" THEN [pc |-> "done", last |-> "result"]
    ELSE [pc |-> "idle", last |-> msg.type]

\* An enqueue that drops the new event when the queue is full.
enqueueDropNewest(msg) ==
    IF Len(streamResolvers) > 0
    THEN [queue |-> streamQueue, resolvers |-> Tail(streamResolvers),
          dropped |-> droppedStreamMessages, to |-> <<Head(streamResolvers)>>]
    ELSE IF Len(streamQueue) >= MAX_BUFFERED_STREAM_MESSAGES
    THEN [queue |-> streamQueue, resolvers |-> streamResolvers,
          dropped |-> droppedStreamMessages + 1, to |-> <<>>]
    ELSE [queue |-> Append(streamQueue, msg), resolvers |-> streamResolvers,
          dropped |-> droppedStreamMessages, to |-> <<>>]

\* An enqueue that never evicts.
enqueueUnbounded(msg) ==
    IF Len(streamResolvers) > 0
    THEN [queue |-> streamQueue, resolvers |-> Tail(streamResolvers),
          dropped |-> droppedStreamMessages, to |-> <<Head(streamResolvers)>>]
    ELSE [queue |-> Append(streamQueue, msg), resolvers |-> streamResolvers,
          dropped |-> droppedStreamMessages, to |-> <<>>]

\* An enqueue that hands the event to the consumer that blocked last.
enqueueToNewestWaiter(msg) ==
    IF Len(streamResolvers) > 0
    THEN [queue |-> streamQueue,
          resolvers |-> SubSeq(streamResolvers, 1, Len(streamResolvers) - 1),
          dropped |-> droppedStreamMessages,
          to |-> <<streamResolvers[Len(streamResolvers)]>>]
    ELSE IF Len(streamQueue) >= MAX_BUFFERED_STREAM_MESSAGES
    THEN [queue |-> Append(Tail(streamQueue), msg), resolvers |-> streamResolvers,
          dropped |-> droppedStreamMessages + 1, to |-> <<>>]
    ELSE [queue |-> Append(streamQueue, msg), resolvers |-> streamResolvers,
          dropped |-> droppedStreamMessages, to |-> <<>>]

\* An enqueue that evicts the oldest event without counting it.
enqueueUncounted(msg) ==
    IF Len(streamResolvers) > 0
    THEN [queue |-> streamQueue, resolvers |-> Tail(streamResolvers),
          dropped |-> droppedStreamMessages, to |-> <<Head(streamResolvers)>>]
    ELSE IF Len(streamQueue) >= MAX_BUFFERED_STREAM_MESSAGES
    THEN [queue |-> Append(Tail(streamQueue), msg), resolvers |-> streamResolvers,
          dropped |-> droppedStreamMessages, to |-> <<>>]
    ELSE [queue |-> Append(streamQueue, msg), resolvers |-> streamResolvers,
          dropped |-> droppedStreamMessages, to |-> <<>>]

\* Session.enqueueStreamMessage(msg): hand off to the first blocked consumer,
\* else drop the oldest when full, then push.
enqueueStreamMessage(msg) ==
    IF Len(streamResolvers) > 0
    THEN [queue |-> streamQueue, resolvers |-> Tail(streamResolvers),
          dropped |-> droppedStreamMessages, to |-> <<Head(streamResolvers)>>]
    ELSE IF Len(streamQueue) >= MAX_BUFFERED_STREAM_MESSAGES
    THEN [queue |-> Append(Tail(streamQueue), msg), resolvers |-> streamResolvers,
          dropped |-> droppedStreamMessages + 1, to |-> <<>>]
    ELSE [queue |-> Append(streamQueue, msg), resolvers |-> streamResolvers,
          dropped |-> droppedStreamMessages, to |-> <<>>]

\* A nextBufferedMessage that looks at pumpClosed before it looks at the queue.
nextBufferedMessageEndFirst(c, isClosed) ==
    IF isClosed
    THEN [got |-> <<NULL>>, queue |-> streamQueue, resolvers |-> streamResolvers]
    ELSE IF Len(streamQueue) > 0
    THEN [got |-> <<Head(streamQueue)>>, queue |-> Tail(streamQueue),
          resolvers |-> streamResolvers]
    ELSE [got |-> <<>>, queue |-> streamQueue, resolvers |-> Append(streamResolvers, c)]

\* Session.nextBufferedMessage(): the oldest buffered event, null once the pump
\* is closed, or a new blocked consumer.  `isClosed` is this.pumpClosed as the
\* call finds it.
nextBufferedMessage(c, isClosed) ==
    IF Len(streamQueue) > 0
    THEN [got |-> <<Head(streamQueue)>>, queue |-> Tail(streamQueue),
          resolvers |-> streamResolvers]
    ELSE IF isClosed
    THEN [got |-> <<NULL>>, queue |-> streamQueue, resolvers |-> streamResolvers]
    ELSE [got |-> <<>>, queue |-> streamQueue, resolvers |-> Append(streamResolvers, c)]

\* The variables resolveAllStreamWaiters() touches.
waitVars == <<consumer, streamResolvers, list, resolved, controlResponseWaiters>>

\* listMessages() call l has a waiter registered.
HasWaiter(l) == \E p \in controlResponseWaiters : p[2] = l

\* A resolveAllStreamWaiters that ends the blocked consumers only.
resolveStreamWaitersOnly ==
    /\ consumer' = [c \in Consumers |->
            IF c \in Range(streamResolvers) THEN Received(consumer[c], NULL)
            ELSE consumer[c]]
    /\ streamResolvers' = <<>>
    /\ UNCHANGED <<list, resolved, controlResponseWaiters>>

\* Session.resolveAllStreamWaiters(null): every blocked consumer gets null and
\* every control waiter the error "session closed"; both collections are emptied.
\* A listMessages() call that awaits its waiter then throws; one that already
\* threw at its write is past it.
resolveAllStreamWaiters ==
    /\ consumer' = [c \in Consumers |->
            IF c \in Range(streamResolvers) THEN Received(consumer[c], NULL)
            ELSE consumer[c]]
    /\ streamResolvers' = <<>>
    /\ list' = [l \in Lists |->
            IF HasWaiter(l) /\ list[l].pc = "await"
            THEN [pc |-> "threw", outcome |-> <<"session closed">>]
            ELSE list[l]]
    /\ resolved' = [l \in Lists |-> IF HasWaiter(l) THEN resolved[l] + 1 ELSE resolved[l]]
    /\ controlResponseWaiters' = {}

\* ----------------------------------------------------------- classification

SDKMessage(type, n) == [type |-> type, sub |-> "-", rid |-> <<>>, tool |-> "-", n |-> n]

\* A parse whose catch leaves the input empty.
JSONparseEmptyOnError(text) ==
    IF /\ Len(text) >= 2
       /\ text[1] = "{"
       /\ text[Len(text)] = "}"
       /\ \A i \in 2..(Len(text) - 1) : text[i] \notin {"{", "}"}
    THEN [parsed |-> TRUE, value |-> SubSeq(text, 2, Len(text) - 1)]
    ELSE [parsed |-> FALSE, value |-> <<>>]

\* JSON.parse(text) in its try/catch: the object of a complete text, else
\* {raw: text}.
JSONparse(text) ==
    IF /\ Len(text) >= 2
       /\ text[1] = "{"
       /\ text[Len(text)] = "}"
       /\ \A i \in 2..(Len(text) - 1) : text[i] \notin {"{", "}"}
    THEN [parsed |-> TRUE, value |-> SubSeq(text, 2, Len(text) - 1)]
    ELSE [parsed |-> FALSE, value |-> text]

\* {type: "tool_call", toolCallId, toolName, toolInput}
SDKToolCall(toolCallId, toolName, toolInput, n) ==
    [type |-> "tool_call", sub |-> "-", rid |-> <<>>, tool |-> toolName, n |-> n,
     toolCallId |-> toolCallId, toolInput |-> toolInput]

\* A classifier that has no branch for error and retry envelopes.
transformMessageDropsErrors(wireMsg) ==
    IF wireMsg.type = "system" /\ wireMsg.sub = "init" THEN SDKMessage("init", wireMsg.n)
    ELSE IF wireMsg.type = "message" /\ wireMsg.sub = "assistant_message"
    THEN SDKMessage("assistant", wireMsg.n)
    ELSE IF wireMsg.type = "result" THEN SDKMessage("result", wireMsg.n)
    ELSE NULL

\* Session.transformMessage(wireMsg): the stream event of an envelope, or null.
transformMessage(wireMsg) ==
    IF wireMsg.type = "system" /\ wireMsg.sub = "init" THEN SDKMessage("init", wireMsg.n)
    ELSE IF wireMsg.type = "message" /\ wireMsg.sub = "assistant_message"
    THEN SDKMessage("assistant", wireMsg.n)
    ELSE IF /\ wireMsg.type = "message"
            /\ wireMsg.sub \in {"tool_call_message", "approval_request_message"}
    THEN SDKToolCall(wireMsg.toolCallId, wireMsg.tool, JSONparse(wireMsg.arguments),
                     wireMsg.n)
    ELSE IF wireMsg.type = "message" /\ wireMsg.sub = "tool_return_message"
    THEN SDKMessage("tool_result", wireMsg.n)
    ELSE IF wireMsg.type = "message" /\ wireMsg.sub = "reasoning_message"
    THEN SDKMessage("reasoning", wireMsg.n)
    ELSE IF wireMsg.type = "stream_event" THEN SDKMessage("stream_event", wireMsg.n)
    ELSE IF wireMsg.type = "result" THEN SDKMessage("result", wireMsg.n)
    ELSE IF wireMsg.type = "error" THEN SDKMessage("error", wireMsg.n)
    ELSE IF wireMsg.type = "retry" THEN SDKMessage("retry", wireMsg.n)
    ELSE NULL

\* --------------------------------------------------------------- permission

\* The response of the callback branch: the callback's allow or deny, or a
\* deny that carries err.message (or "Callback error" for a non-Error).
CallbackResponse(outcome) ==
    [behavior |-> IF outcome = "allow" THEN "allow" ELSE "deny",
     message |-> IF outcome = "allow" THEN "-"
                 ELSE IF outcome = "deny" THEN "Denied by canUseTool callback"
                 ELSE IF outcome = "throw" THEN "err.message"
                 ELSE "Callback error",
     invoked |-> TRUE]

AllowResponse == [behavior |-> "allow", message |-> "-", invoked |-> FALSE]

DenyResponse ==
    [behavior |-> "deny", message |-> "No canUseTool callback registered",
     invoked |-> FALSE]

\* A decision that tries the auto-allow set before the callback.
handleCanUseTool_AutoAllowFirst(toolName, outcome) ==
    IF requiresRuntimeUserInput(toolName) /\ ~options.hasCallback THEN DenyResponse
    ELSE IF options.permissionMode = "bypassPermissions"
            /\ ~requiresRuntimeUserInput(toolName)
    THEN AllowResponse
    ELSE IF isHeadlessAutoAllowTool(toolName) THEN AllowResponse
    ELSE IF options.hasCallback THEN CallbackResponse(outcome)
    ELSE DenyResponse

\* A decision whose bypass branch does not look at the tool.
handleCanUseTool_BypassAll(toolName, outcome) ==
    IF requiresRuntimeUserInput(toolName) /\ ~options.hasCallback THEN DenyResponse
    ELSE IF options.permissionMode = "bypassPermissions" THEN AllowResponse
    ELSE IF options.hasCallback THEN CallbackResponse(outcome)
    ELSE IF isHeadlessAutoAllowTool(toolName) THEN AllowResponse
    ELSE DenyResponse

\* A decision that lets the tool run when the callback throws.
handleCanUseTool_ThrowAllows(toolName, outcome) ==
    IF requiresRuntimeUserInput(toolName) /\ ~options.hasCallback THEN DenyResponse
    ELSE IF options.permissionMode = "bypassPermissions"
            /\ ~requiresRuntimeUserInput(toolName)
    THEN AllowResponse
    ELSE IF options.hasCallback
    THEN CallbackResponse(IF outcome \in {"throw", "throwValue"} THEN "allow" ELSE outcome)
    ELSE IF isHeadlessAutoAllowTool(toolName) THEN AllowResponse
    ELSE DenyResponse

\* Session.handleCanUseTool's decision for `toolName`; `outcome` is what the
\* host callback does if this call invokes it.
handleCanUseTool(toolName, outcome) ==
    IF requiresRuntimeUserInput(toolName) /\ ~options.hasCallback THEN DenyResponse
    ELSE IF options.permissionMode = "bypassPermissions"
            /\ ~requiresRuntimeUserInput(toolName)
    THEN AllowResponse
    ELSE IF options.hasCallback THEN CallbackResponse(outcome)
    ELSE IF isHeadlessAutoAllowTool(toolName) THEN AllowResponse
    ELSE DenyResponse

\* Session.handleExecuteExternalTool's result for `toolName`; `outcome` is what
\* the tool's execute() does if the tool is registered.
handleExecuteExternalTool(toolName, outcome) ==
    IF toolName \notin options.tools
    THEN [isError |-> TRUE, invoked |-> FALSE]
    ELSE [isError |-> outcome = "executeThrew", invoked |-> TRUE]

\* ------------------------------------------------------------------- worker

\* A transport that queues a control request ahead of the envelopes already
\* queued.
handleMessageRequestsFirst(msg) ==
    IF Len(messageResolvers) > 0
    THEN /\ reader' = [reader EXCEPT ![Head(messageResolvers)] =
                            [pc |-> "have", msg |-> msg]]
         /\ messageResolvers' = Tail(messageResolvers)
         /\ UNCHANGED messageQueue
    ELSE /\ messageQueue' = IF msg.type = "control_request"
                            THEN <<msg>> \o messageQueue
                            ELSE Append(messageQueue, msg)
         /\ UNCHANGED <<reader, messageResolvers>>

\* SubprocessTransport.handleMessage(msg): give the envelope to the first
\* blocked reader, else queue it.
handleMessage(msg) ==
    IF Len(messageResolvers) > 0
    THEN /\ reader' = [reader EXCEPT ![Head(messageResolvers)] =
                            [pc |-> "have", msg |-> msg]]
         /\ messageResolvers' = Tail(messageResolvers)
         /\ UNCHANGED messageQueue
    ELSE /\ messageQueue' = Append(messageQueue, msg)
         /\ UNCHANGED <<reader, messageResolvers>>

\* A line of the worker's stdout: JSON.stringify(value) of an envelope, or a
\* text that is blank, the JSON literal null, or no JSON at all.
Serialized(value) == [text |-> "json", value |-> value]
BlankLine == [text |-> "", value |-> NULL]
NullLine == [text |-> "null", value |-> NULL]
GarbageLine == [text |-> "garbage", value |-> NULL]

\* JSON.parse(line): the value, or a SyntaxError.
JSONparseLine(line) ==
    IF line.text \in {"json", "null"} THEN [parsed |-> TRUE, value |-> line.value]
    ELSE [parsed |-> FALSE, value |-> NULL]

\* A line handler that closes the transport on a line it cannot parse.
onLineCloses(line) ==
    IF line.text = "" THEN UNCHANGED <<closed, reader, messageQueue, messageResolvers>>
    ELSE IF ~JSONparseLine(line).parsed
    THEN /\ closed' = TRUE
         /\ reader' = FlushReaders(messageResolvers)
         /\ messageResolvers' = <<>>
         /\ UNCHANGED messageQueue
    ELSE IF JSONparseLine(line).value = NULL
    THEN UNCHANGED <<closed, reader, messageQueue, messageResolvers>>
    ELSE handleMessage(JSONparseLine(line).value) /\ UNCHANGED closed

\* The stdout "line" handler on one raw line: a blank line returns at once; a
\* line JSON.parse rejects is caught and logged; the literal null is parsed,
\* makes handleMessage throw at its first property read and is caught as well;
\* an envelope reaches handleMessage.
onLine(line) ==
    IF line.text = "" THEN UNCHANGED <<closed, reader, messageQueue, messageResolvers>>
    ELSE IF ~JSONparseLine(line).parsed
    THEN UNCHANGED <<closed, reader, messageQueue, messageResolvers>>
    ELSE IF JSONparseLine(line).value = NULL
    THEN UNCHANGED <<closed, reader, messageQueue, messageResolvers>>
    ELSE handleMessage(JSONparseLine(line).value) /\ UNCHANGED closed

\* The worker writes one raw line, drawn from `lines`, and the handler runs on
\* it; the worker writes at most `max` lines.
WorkerWritesLine(lines, max) ==
    /\ worker = "running"
    /\ wireCount < max
    /\ wireCount' = wireCount + 1
    /\ \E line \in lines :
        /\ onLine(line)
        /\ asked' = IF line.value = NULL
                    THEN asked \cup {Envelope("line", line.text, <<>>, "-", wireCount + 1)}
                    ELSE asked
    /\ UNCHANGED <<worker, process, stdin, sessionVars, consumer, list, yielded,
                   resolved, callbacks, pushed, pops, aborts>>

\* The stdout "line" handler: one JSON line of the worker, drawn from `lines`,
\* reaches handleMessage; the worker writes at most `max` lines.
WorkerWrites(lines, max) ==
    /\ worker = "running"
    /\ wireCount < max
    /\ wireCount' = wireCount + 1
    /\ \E m \in lines :
        /\ handleMessage(m)
        /\ asked' = IF m.type = "control_request" \/ m.sub = "tool_call_message"
                    THEN asked \cup {m} ELSE asked
    /\ UNCHANGED <<worker, process, closed, stdin, sessionVars, consumer, list, yielded,
                   resolved, callbacks, pushed, pops, aborts>>

\* The process "close" handler: the worker has exited; closed is set and every
\* blocked reader is resolved with null.
ProcessClose ==
    /\ worker = "running"
    /\ worker' = "exited"
    /\ closed' = TRUE
    /\ reader' = FlushReaders(messageResolvers)
    /\ messageResolvers' = <<>>
    /\ UNCHANGED <<wireCount, process, messageQueue, stdin, sessionVars, consumer, list,
                   historyVars>>

\* The process "error" handler: closed is set; the blocked readers are left.
ProcessError ==
    /\ worker = "running"
    /\ ~closed
    /\ closed' = TRUE
    /\ UNCHANGED <<worker, wireCount, process, messageQueue, messageResolvers, stdin,
                   sessionVars, taskVars, historyVars>>

\* ------------------------------------------------------------ reader tasks

\* The loop of reader r asks transport.messages() for the next envelope.
Continue(r) ==
    /\ reader' = [reader EXCEPT ![r] = read(r).task]
    /\ messageQueue' = read(r).queue
    /\ messageResolvers' = read(r).resolvers

\* An exception leaves the loop of reader r: runBackgroundPump() rejects and
\* the finally of startBackgroundPump() is due; initialize() rejects.
Throw(r) ==
    /\ reader' = [reader EXCEPT ![r] =
                    [pc |-> IF r = "pump" THEN "finally" ELSE "failed", msg |-> NULL]]
    /\ UNCHANGED <<messageQueue, messageResolvers>>

\* A startBackgroundPump() without the guard on this.pumpPromise.
startBackgroundPumpAlways(rd) ==
    /\ pumpPromise' = TRUE
    /\ pumpClosed' = FALSE
    /\ reader' = [rd EXCEPT !["pump"] = read("pump").task]
    /\ messageQueue' = read("pump").queue
    /\ messageResolvers' = read("pump").resolvers

\* Session.startBackgroundPump(): a first call starts the pump, which calls
\* read() at once.  `rd` is the readers' records as the caller leaves them.
startBackgroundPump(rd) ==
    IF pumpPromise
    THEN /\ reader' = rd
         /\ UNCHANGED <<pumpPromise, pumpClosed, messageQueue, messageResolvers>>
    ELSE /\ pumpPromise' = TRUE
         /\ pumpClosed' = FALSE
         /\ reader' = [rd EXCEPT !["pump"] = read("pump").task]
         /\ messageQueue' = read("pump").queue
         /\ messageResolvers' = read("pump").resolvers

\* initialize(): the guard, then the await of transport.connect().
Initialize ==
    /\ reader["init"].pc = "idle"
    /\ ~initialized
    /\ reader' = [reader EXCEPT !["init"].pc = "connect"]
    /\ UNCHANGED <<worker, wireCount, transportVars, sessionVars, consumer, list,
                   historyVars>>

\* connect() has spawned the worker; initialize() writes the initialize
\* control request and starts to read.
InitializeConnected ==
    /\ reader["init"].pc = "connect"
    /\ process' = TRUE
    /\ worker' = "running"
    /\ IF closed
       THEN /\ Throw("init")
            /\ UNCHANGED stdin
       ELSE /\ stdin' = Append(stdin,
                    Written("control_request", "initialize", <<"init", 1>>, "-", "-"))
            /\ Continue("init")
    /\ UNCHANGED <<wireCount, closed, sessionVars, consumer, list, historyVars>>

\* The write of a can_use_tool control response by reader r, which then reads on.
Respond(r, response) ==
    IF writeThrows
    THEN /\ Throw(r)
         /\ UNCHANGED stdin
    ELSE /\ stdin' = Append(stdin, Written("control_response", "success",
                        reader[r].msg.rid, response.behavior, response.message))
         /\ Continue(r)

\* The write of an external_tool_result control response by reader r, which
\* then reads on.
RespondExternal(r, result) ==
    IF writeThrows
    THEN /\ Throw(r)
         /\ UNCHANGED stdin
    ELSE /\ stdin' = Append(stdin, Written("control_response", "external_tool_result",
                        reader[r].msg.rid, "-",
                        IF result.isError THEN "is_error" ELSE "content"))
         /\ Continue(r)

\* A handling in which only the pump answers: initialize() passes over the
\* control requests it reads.
ControlRequestPumpOnly(r) ==
    /\ reader[r].pc = "have"
    /\ reader[r].msg.type = "control_request"
    /\ IF r = "pump" /\ reader[r].msg.sub = "can_use_tool"
       THEN IF handleCanUseTool(reader[r].msg.tool, "allow").invoked
            THEN /\ reader' = [reader EXCEPT ![r].pc = "callback"]
                 /\ UNCHANGED <<messageQueue, messageResolvers, stdin>>
            ELSE Respond(r, handleCanUseTool(reader[r].msg.tool, "allow"))
       ELSE IF r = "pump" /\ reader[r].msg.sub = "execute_external_tool"
       THEN IF handleExecuteExternalTool(reader[r].msg.tool, "executed").invoked
            THEN /\ reader' = [reader EXCEPT ![r].pc = "execute"]
                 /\ UNCHANGED <<messageQueue, messageResolvers, stdin>>
            ELSE RespondExternal(r, handleExecuteExternalTool(reader[r].msg.tool, "executed"))
       ELSE /\ Continue(r)
            /\ UNCHANGED stdin
    /\ UNCHANGED <<worker, wireCount, process, closed, sessionVars, consumer, list,
                   historyVars>>

\* handleControlRequest() in the pump or in initialize(): a can_use_tool request
\* is decided, or the host callback is awaited; an execute_external_tool
\* request for an unknown tool is answered, or the tool's execute() is awaited;
\* other subtypes are dropped.
ControlRequest(r) ==
    /\ reader[r].pc = "have"
    /\ reader[r].msg.type = "control_request"
    /\ IF reader[r].msg.sub = "can_use_tool"
       THEN IF handleCanUseTool(reader[r].msg.tool, "allow").invoked
            THEN /\ reader' = [reader EXCEPT ![r].pc = "callback"]
                 /\ UNCHANGED <<messageQueue, messageResolvers, stdin>>
            ELSE Respond(r, handleCanUseTool(reader[r].msg.tool, "allow"))
       ELSE IF reader[r].msg.sub = "execute_external_tool"
       THEN IF handleExecuteExternalTool(reader[r].msg.tool, "executed").invoked
            THEN /\ reader' = [reader EXCEPT ![r].pc = "execute"]
                 /\ UNCHANGED <<messageQueue, messageResolvers, stdin>>
            ELSE RespondExternal(r, handleExecuteExternalTool(reader[r].msg.tool, "executed"))
       ELSE /\ Continue(r)
            /\ UNCHANGED stdin
    /\ UNCHANGED <<worker, wireCount, process, closed, sessionVars, consumer, list,
                   historyVars>>

\* The host's canUseTool callback settles; the response is written.
CallbackSettles(r) ==
    /\ reader[r].pc = "callback"
    /\ \E outcome \in CallbackOutcomes :
        /\ callbacks' = callbacks \cup {<<reader[r].msg.rid, outcome>>}
        /\ Respond(r, handleCanUseTool(reader[r].msg.tool, outcome))
    /\ UNCHANGED <<worker, wireCount, process, closed, sessionVars, consumer, list,
                   yielded, resolved, asked, pushed, pops, aborts>>

\* The execute() of a registered external tool settles; the result is written.
ExecuteSettles(r) ==
    /\ reader[r].pc = "execute"
    /\ \E outcome \in ExecuteOutcomes :
        /\ callbacks' = callbacks \cup {<<reader[r].msg.rid, outcome>>}
        /\ RespondExternal(r, handleExecuteExternalTool(reader[r].msg.tool, outcome))
    /\ UNCHANGED <<worker, wireCount, process, closed, sessionVars, consumer, list,
                   yielded, resolved, asked, pushed, pops, aborts>>

\* read() returned null: the loop of reader r ends.  The pump's finally is due;
\* initialize() throws "no init message received".
ReaderEnd(r) ==
    /\ reader[r].pc = "have"
    /\ reader[r].msg = NULL
    /\ Throw(r)
    /\ UNCHANGED <<worker, wireCount, process, closed, stdin, sessionVars, consumer, list,
                   historyVars>>

\* initialize() reads the init envelope: the identity is set, the session is
\* initialized, the pump is started, the external tools (if any) are
\* registered with the worker and initialize() returns; it throws if the
\* register_external_tools request cannot be written.
InitializeInit ==
    /\ reader["init"].pc = "have"
    /\ reader["init"].msg.type = "system"
    /\ reader["init"].msg.sub = "init"
    /\ agentId' = reader["init"].msg.n
    /\ initialized' = TRUE
    /\ startBackgroundPump([reader EXCEPT !["init"] =
            [pc |-> IF options.tools # {} /\ writeThrows THEN "failed" ELSE "done",
             msg |-> NULL]])
    /\ stdin' = IF options.tools # {} /\ ~writeThrows
                THEN Append(stdin, Written("control_request", "register_external_tools",
                                           <<"register", 1>>, "-", "-"))
                ELSE stdin
    /\ UNCHANGED <<worker, wireCount, process, closed, options, streamQueue,
                   streamResolvers, droppedStreamMessages, controlResponseWaiters,
                   consumer, list, historyVars>>

\* initialize() reads an envelope that is neither a control request nor init:
\* it is passed over.
InitializeSkip ==
    /\ reader["init"].pc = "have"
    /\ reader["init"].msg # NULL
    /\ reader["init"].msg.type # "control_request"
    /\ ~(reader["init"].msg.type = "system" /\ reader["init"].msg.sub = "init")
    /\ Continue("init")
    /\ UNCHANGED <<worker, wireCount, process, closed, stdin, sessionVars, consumer, list,
                   historyVars>>

\* The effect of enqueueStreamMessage(sdkMsg) on the buffer and on the
\* consumer it hands the event to.
Enqueue(sdkMsg) ==
    LET e == enqueueStreamMessage(sdkMsg)
    IN  /\ streamQueue' = e.queue
        /\ streamResolvers' = e.resolvers
        /\ droppedStreamMessages' = e.dropped
        /\ consumer' = IF e.to = <<>> THEN consumer
                       ELSE [consumer EXCEPT ![e.to[1]] = Received(@, sdkMsg)]
        /\ yielded' = IF e.to = <<>> THEN yielded
                      ELSE Append(yielded, <<e.to[1], sdkMsg>>)

\* A routing that leaves the waiter in the map.
keepWaiter(requestId) == controlResponseWaiters

\* A routing that clears the map.
deleteAllWaiters(requestId) == {}

\* this.controlResponseWaiters.delete(requestId)
deleteWaiter(requestId) == {p \in controlResponseWaiters : p[1] # requestId}

\* A pump that hands a control_response to the stream like any other envelope.
PumpControlResponseEnqueues ==
    /\ reader["pump"].pc = "have"
    /\ reader["pump"].msg.type = "control_response"
    /\ Enqueue(reader["pump"].msg)
    /\ Continue("pump")
    /\ UNCHANGED <<worker, wireCount, process, closed, stdin, options, initialized, agentId,
                   pumpPromise, pumpClosed, controlResponseWaiters, list, resolved,
                   callbacks, asked, pushed, pops, aborts>>

\* A pump that takes a control_response without a waiter for an error.
PumpControlResponseThrows ==
    /\ reader["pump"].pc = "have"
    /\ reader["pump"].msg.type = "control_response"
    /\ Throw("pump")
    /\ UNCHANGED <<worker, wireCount, process, closed, stdin, sessionVars, consumer, list,
                   historyVars>>

\* runBackgroundPump() routes a control_response to its waiter, or drops it.
PumpControlResponse ==
    /\ reader["pump"].pc = "have"
    /\ reader["pump"].msg.type = "control_response"
    /\ LET requestId == reader["pump"].msg.rid
           hit == {p \in controlResponseWaiters : p[1] = requestId}
       IN  IF requestId # <<>> /\ hit # {}
           THEN /\ controlResponseWaiters' = deleteWaiter(requestId)
                /\ list' = [l \in Lists |->
                      IF \E p \in hit : p[2] = l
                      THEN IF reader["pump"].msg.sub = "error"
                           THEN [pc |-> "threw", outcome |-> <<"error", requestId>>]
                           ELSE [pc |-> "returned", outcome |-> <<"payload", requestId>>]
                      ELSE list[l]]
                /\ resolved' = [l \in Lists |->
                      IF \E p \in hit : p[2] = l THEN resolved[l] + 1 ELSE resolved[l]]
           ELSE UNCHANGED <<controlResponseWaiters, list, resolved>>
    /\ Continue("pump")
    /\ UNCHANGED <<worker, wireCount, process, closed, stdin, options, initialized, agentId,
                   streamQueue, streamResolvers, pumpPromise, pumpClosed,
                   droppedStreamMessages, consumer, yielded, callbacks, asked, pushed, pops, aborts>>

\* A pump that waits for room in the buffer before it enqueues.
PumpStreamMessageBlocks ==
    /\ reader["pump"].pc = "have"
    /\ reader["pump"].msg # NULL
    /\ reader["pump"].msg.type \notin {"control_request", "control_response"}
    /\ Len(streamQueue) < MAX_BUFFERED_STREAM_MESSAGES
    /\ Enqueue(transformMessage(reader["pump"].msg))
    /\ Continue("pump")
    /\ UNCHANGED <<worker, wireCount, process, closed, stdin, options, initialized, agentId,
                   pumpPromise, pumpClosed, controlResponseWaiters, list, resolved,
                   callbacks, asked, pushed, pops, aborts>>

\* runBackgroundPump() transforms any other envelope and enqueues its event.
PumpStreamMessage ==
    /\ reader["pump"].pc = "have"
    /\ reader["pump"].msg # NULL
    /\ reader["pump"].msg.type \notin {"control_request", "control_response"}
    /\ IF transformMessage(reader["pump"].msg) = NULL
       THEN UNCHANGED <<streamQueue, streamResolvers, droppedStreamMessages, consumer,
                        yielded>>
       ELSE Enqueue(transformMessage(reader["pump"].msg))
    /\ Continue("pump")
    /\ UNCHANGED <<worker, wireCount, process, closed, stdin, options, initialized, agentId,
                   pumpPromise, pumpClosed, controlResponseWaiters, list, resolved,
                   callbacks, asked, pushed, pops, aborts>>

\* The finally of startBackgroundPump(): pumpClosed is set and every waiter
\* is resolved.
PumpFinally ==
    /\ reader["pump"].pc = "finally"
    /\ reader' = [reader EXCEPT !["pump"].pc = "done"]
    /\ pumpClosed' = TRUE
    /\ resolveAllStreamWaiters
    /\ UNCHANGED <<worker, wireCount, transportVars, options, initialized, agentId,
                   streamQueue, pumpPromise, droppedStreamMessages, yielded, callbacks,
                   asked, pushed, pops, aborts>>

\* ------------------------------------------------------------- host calls

\* nextBufferedMessage() for the stream() iteration c whose record is `rec`.
Pull(c, rec, isClosed) ==
    LET nb == nextBufferedMessage(c, isClosed)
    IN  /\ streamQueue' = nb.queue
        /\ streamResolvers' = nb.resolvers
        /\ consumer' = [consumer EXCEPT ![c] =
                IF nb.got = <<>> THEN [pc |-> "wait", last |-> rec.last]
                ELSE Received(rec, nb.got[1])]
        /\ yielded' = IF nb.got = <<>> \/ nb.got = <<NULL>> THEN yielded
                      ELSE Append(yielded, <<c, nb.got[1]>>)

\* A stream() call and its first next(): the pump is started if it never was,
\* then the iteration asks for the first event.
StreamCall(c) ==
    /\ consumer[c].pc \in {"new", "done"}
    /\ startBackgroundPump(reader)
    /\ Pull(c, [pc |-> "new", last |-> "none"], pumpPromise /\ pumpClosed)
    /\ UNCHANGED <<worker, wireCount, process, closed, stdin, options, initialized, agentId,
                   droppedStreamMessages, controlResponseWaiters, list, resolved,
                   callbacks, asked, pushed, pops, aborts>>

\* The host asks the iteration for its next event.
StreamNext(c) ==
    /\ consumer[c].pc = "idle"
    /\ Pull(c, consumer[c], pumpClosed)
    /\ UNCHANGED <<worker, wireCount, transportVars, options, initialized, agentId,
                   pumpPromise, pumpClosed, droppedStreamMessages,
                   controlResponseWaiters, reader, list, resolved, callbacks, asked, pushed, pops, aborts>>

\* A listMessages() that writes its request and registers no waiter for it.
ListMessagesWriteOnly(l) ==
    /\ list[l].pc = "idle"
    /\ initialized
    /\ ~writeThrows
    /\ list' = [list EXCEPT ![l] = [pc |-> "await", outcome |-> <<>>]]
    /\ stdin' = Append(stdin, Written("control_request", "list_messages",
                                      ListRequestId(l), "-", "-"))
    /\ UNCHANGED <<worker, wireCount, process, closed, messageQueue, messageResolvers,
                   sessionVars, reader, consumer, historyVars>>

\* A listMessages() without the guard on this.initialized.
ListMessagesUnguarded(l) ==
    /\ list[l].pc = "idle"
    /\ controlResponseWaiters' =
            {p \in controlResponseWaiters : p[1] # ListRequestId(l)}
            \cup {<<ListRequestId(l), l>>}
    /\ IF writeThrows
       THEN /\ list' = [list EXCEPT ![l] = [pc |-> "threw", outcome |-> <<"write failed">>]]
            /\ UNCHANGED stdin
       ELSE /\ list' = [list EXCEPT ![l] = [pc |-> "await", outcome |-> <<>>]]
            /\ stdin' = Append(stdin, Written("control_request", "list_messages",
                                              ListRequestId(l), "-", "-"))
    /\ UNCHANGED <<worker, wireCount, process, closed, messageQueue, messageResolvers,
                   options, initialized, agentId, streamQueue, streamResolvers, pumpPromise,
                   pumpClosed, droppedStreamMessages, reader, consumer, historyVars>>

\* listMessages(): the guard, the waiter's registration and the write of the
\* list_messages control request; the call then awaits its waiter.
ListMessages(l) ==
    /\ list[l].pc = "idle"
    /\ IF ~initialized
       THEN /\ list' = [list EXCEPT ![l] = [pc |-> "threw", outcome |-> <<"not initialized">>]]
            /\ UNCHANGED <<controlResponseWaiters, stdin>>
       ELSE /\ controlResponseWaiters' =
                {p \in controlResponseWaiters : p[1] # ListRequestId(l)}
                \cup {<<ListRequestId(l), l>>}
            /\ IF writeThrows
               THEN /\ list' = [list EXCEPT ![l] =
                                    [pc |-> "threw", outcome |-> <<"write failed">>]]
                    /\ UNCHANGED stdin
               ELSE /\ list' = [list EXCEPT ![l] = [pc |-> "await", outcome |-> <<>>]]
                    /\ stdin' = Append(stdin, Written("control_request", "list_messages",
                                                      ListRequestId(l), "-", "-"))
    /\ UNCHANGED <<worker, wireCount, process, closed, messageQueue, messageResolvers,
                   options, initialized, agentId, streamQueue, streamResolvers, pumpPromise,
                   pumpClosed, droppedStreamMessages, reader, consumer, historyVars>>

\* A close() that closes the transport and leaves the session's waiters.
CloseTransportOnly ==
    /\ process' = FALSE
    /\ closed' = TRUE
    /\ reader' = FlushReaders(messageResolvers)
    /\ messageResolvers' = <<>>
    /\ UNCHANGED <<worker, wireCount, messageQueue, stdin, sessionVars, consumer, list,
                   historyVars>>

\* close(): transport.close() ends stdin, kills the worker and resolves the
\* blocked readers with null; then pumpClosed is set and every waiter resolved.
Close ==
    /\ process' = FALSE
    /\ closed' = TRUE
    /\ reader' = FlushReaders(messageResolvers)
    /\ messageResolvers' = <<>>
    /\ pumpClosed' = TRUE
    /\ resolveAllStreamWaiters
    /\ UNCHANGED <<worker, wireCount, messageQueue, stdin, options, initialized, agentId,
                   streamQueue, pumpPromise, droppedStreamMessages, yielded, callbacks,
                   asked, pushed, pops, aborts>>

\* initialize() called on a session that is already initialized: the guard
\* throws "Session already initialized".
InitializeRejected ==
    /\ reader["init"].pc = "idle"
    /\ initialized
    /\ reader' = [reader EXCEPT !["init"].pc = "failed"]
    /\ UNCHANGED <<worker, wireCount, transportVars, sessionVars, consumer, list,
                   historyVars>>

\* The write of the user envelope by send(), which then returns.
SendWrites ==
    IF writeThrows
    THEN /\ reader' = [reader EXCEPT !["send"] = [pc |-> "failed", msg |-> NULL]]
         /\ UNCHANGED stdin
    ELSE /\ reader' = [reader EXCEPT !["send"] = [pc |-> "done", msg |-> NULL]]
         /\ stdin' = Append(stdin, Written("user", "-", <<>>, "-", "-"))

\* A send() that writes without looking at this.initialized.
SendUnguarded ==
    /\ reader["send"].pc = "idle"
    /\ SendWrites
    /\ UNCHANGED <<worker, wireCount, process, closed, messageQueue, messageResolvers,
                   sessionVars, consumer, list, historyVars>>

\* send(message): on an uninitialized session it calls initialize(), which
\* awaits connect(); else it writes the user envelope.
Send ==
    /\ reader["send"].pc = "idle"
    /\ IF ~initialized
       THEN /\ reader' = [reader EXCEPT !["send"].pc = "connect"]
            /\ UNCHANGED stdin
       ELSE SendWrites
    /\ UNCHANGED <<worker, wireCount, process, closed, messageQueue, messageResolvers,
                   sessionVars, consumer, list, historyVars>>

\* connect() has spawned the worker for the initialize() of send(), which
\* writes the initialize control request and starts to read.
AutoInitializeConnected ==
    /\ reader["send"].pc = "connect"
    /\ process' = TRUE
    /\ worker' = "running"
    /\ IF closed
       THEN /\ Throw("send")
            /\ UNCHANGED stdin
       ELSE /\ stdin' = Append(stdin,
                    Written("control_request", "initialize", <<"init", 1>>, "-", "-"))
            /\ Continue("send")
    /\ UNCHANGED <<wireCount, closed, sessionVars, consumer, list, historyVars>>

\* The initialize() of send() reads the init envelope, as InitializeInit; the
\* continuation of send() is then due.
AutoInitializeInit ==
    /\ reader["send"].pc = "have"
    /\ reader["send"].msg.type = "system"
    /\ reader["send"].msg.sub = "init"
    /\ agentId' = reader["send"].msg.n
    /\ initialized' = TRUE
    /\ startBackgroundPump([reader EXCEPT !["send"] =
            [pc |-> IF options.tools # {} /\ writeThrows THEN "failed" ELSE "inited",
             msg |-> NULL]])
    /\ stdin' = IF options.tools # {} /\ ~writeThrows
                THEN Append(stdin, Written("control_request", "register_external_tools",
                                           <<"register", 1>>, "-", "-"))
                ELSE stdin
    /\ UNCHANGED <<worker, wireCount, process, closed, options, streamQueue,
                   streamResolvers, droppedStreamMessages, controlResponseWaiters,
                   consumer, list, historyVars>>

\* The initialize() of send() passes over an envelope, as InitializeSkip.
AutoInitializeSkip ==
    /\ reader["send"].pc = "have"
    /\ reader["send"].msg # NULL
    /\ reader["send"].msg.type # "control_request"
    /\ ~(reader["send"].msg.type = "system" /\ reader["send"].msg.sub = "init")
    /\ Continue("send")
    /\ UNCHANGED <<worker, wireCount, process, closed, stdin, sessionVars, consumer, list,
                   historyVars>>

\* initialize() has returned to send(), which writes the user envelope.
SendContinues ==
    /\ reader["send"].pc = "inited"
    /\ SendWrites
    /\ UNCHANGED <<worker, wireCount, process, closed, messageQueue, messageResolvers,
                   sessionVars, consumer, list, historyVars>>

\* The interrupt requests on the worker's stdin.
Interrupts == {i \in DOMAIN stdin : stdin[i].sub = "interrupt"}

\* What Date.now() can return to abort(): the millisecond of the latest
\* interrupt request, or a later one.
Now ==
    LET stamps == {stdin[i].rid[2] : i \in Interrupts}
        latest == CHOOSE t \in stamps : \A u \in stamps : u <= t
    IN  IF stamps = {} THEN {1} ELSE {latest, latest + 1}

\* An abort() that also forgets the outstanding control waiters.
AbortForgetsWaiters(calls) ==
    /\ Cardinality(Interrupts) < calls
    /\ ~writeThrows
    /\ aborts' = Append(aborts, "written")
    /\ \E now \in Now :
        stdin' = Append(stdin, Written("control_request", "interrupt",
                                      <<"interrupt", now>>, "-", "-"))
    /\ controlResponseWaiters' = {}
    /\ UNCHANGED <<worker, wireCount, process, closed, messageQueue, messageResolvers,
                   options, initialized, agentId, streamQueue, streamResolvers, pumpPromise,
                   pumpClosed, droppedStreamMessages, taskVars, yielded, resolved,
                   callbacks, asked, pushed, pops>>

\* abort() on a transport that can write: an interrupt control request with the
\* id `interrupt-${Date.now()}` is written.  The host makes at most `calls`
\* such calls.
AbortWithin(calls) ==
    /\ Cardinality(Interrupts) < calls
    /\ ~writeThrows
    /\ aborts' = Append(aborts, "written")
    /\ \E now \in Now :
        stdin' = Append(stdin, Written("control_request", "interrupt",
                                      <<"interrupt", now>>, "-", "-"))
    /\ UNCHANGED <<worker, wireCount, process, closed, messageQueue, messageResolvers,
                   sessionVars, taskVars, yielded, resolved, callbacks, asked, pushed, pops>>

\* The abort() calls that threw.
Thrown == {i \in DOMAIN aborts : aborts[i] = "threw"}

\* abort() on a transport that cannot write: write() throws and abort() rejects
\* with its error; nothing else happens.  The host makes at most `calls` such
\* calls.
AbortThrows(calls) ==
    /\ Cardinality(Thrown) < calls
    /\ writeThrows
    /\ aborts' = Append(aborts, "threw")
    /\ UNCHANGED <<worker, wireCount, transportVars, sessionVars, taskVars, yielded,
                   resolved, callbacks, asked, pushed, pops>>

Abort == AbortWithin(MaxAborts)

\* ------------------------------------------------------------ specification

\* The state after `new Session(options)`, with the options drawn from `opts`.
InitWith(opts) ==
    /\ worker = "none"
    /\ wireCount = 0
    /\ process = FALSE
    /\ closed = FALSE
    /\ messageQueue = <<>>
    /\ messageResolvers = <<>>
    /\ stdin = <<>>
    /\ options \in opts
    /\ initialized = FALSE
    /\ agentId = 0
    /\ streamQueue = <<>>
    /\ streamResolvers = <<>>
    /\ pumpPromise = FALSE
    /\ pumpClosed = FALSE
    /\ droppedStreamMessages = 0
    /\ controlResponseWaiters = {}
    /\ reader = [r \in Readers |->
                    [pc |-> IF r = "pump" THEN "none" ELSE "idle", msg |-> NULL]]
    /\ consumer = [c \in Consumers |-> [pc |-> "new", last |-> "none"]]
    /\ list = [l \in Lists |-> [pc |-> "idle", outcome |-> <<>>]]
    /\ yielded = <<>>
    /\ resolved = [l \in Lists |-> 0]
    /\ callbacks = {}
    /\ asked = {}
    /\ pushed = 0
    /\ pops = 0
    /\ aborts = <<>>

\* The actions of the pump and of initialize() that run without the host or
\* the worker: continuations of resolved promises.
Continuations ==
    \/ InitializeConnected
    \/ InitializeInit
    \/ InitializeSkip
    \/ \E r \in Readers : ControlRequest(r)
    \/ \E r \in Readers : ReaderEnd(r)
    \/ PumpControlResponse
    \/ PumpStreamMessage
    \/ PumpFinally

\* The host's callback is expected to return promptly.
CallbackReturns == \E r \in Readers : CallbackSettles(r)

\* So is a registered tool's execute().
ExecuteReturns == \E r \in Readers : ExecuteSettles(r)

\* ---- the stream lifecycle: a turn's events and tool approvals, two stream()
\* iterations, the worker exiting or failing, the host closing.

Init == InitWith([permissionMode : {"default"}, hasCallback : {TRUE}, tools : {{}}])

WorkerLine ==
    WorkerWrites({InitMessage(wireCount + 1), AssistantMessage(wireCount + 1),
                  ResultMessage(wireCount + 1),
                  CanUseToolRequest(<<"req", wireCount + 1>>, "Bash")}, MaxWire)

Next ==
    \/ Initialize
    \/ InitializeConnected
    \/ InitializeInit
    \/ InitializeSkip
    \/ \E r \in Readers : ControlRequest(r)
    \/ \E r \in Readers : CallbackSettles(r)
    \/ \E r \in Readers : ReaderEnd(r)
    \/ PumpStreamMessage
    \/ PumpFinally
    \/ \E c \in Consumers : StreamCall(c)
    \/ \E c \in Consumers : StreamNext(c)
    \/ Close
    \/ WorkerLine
    \/ ProcessClose
    \/ ProcessError

Spec == Init /\ [][Next]_vars

\* The same with the scheduling the event loop gives: a continuation that is
\* due runs, and the host callback settles.
LiveSpec == Spec /\ WF_vars(Continuations) /\ WF_vars(CallbackReturns)

\* ---- the control channel: listMessages() calls and the worker's control
\* responses (matching, duplicated, early or unmatched), the worker exiting or
\* failing, the host closing.

CtlLine ==
    WorkerWrites({InitMessage(wireCount + 1)}
                 \cup {ControlResponse(ListRequestId(l), sub) :
                            l \in Lists, sub \in {"success", "error"}}, MaxCtlWire)

CtlNext ==
    \/ Initialize
    \/ InitializeConnected
    \/ InitializeInit
    \/ InitializeSkip
    \/ \E r \in Readers : ReaderEnd(r)
    \/ PumpControlResponse
    \/ PumpStreamMessage
    \/ PumpFinally
    \/ \E l \in Lists : ListMessages(l)
    \/ Close
    \/ CtlLine
    \/ ProcessClose
    \/ ProcessError

CtlSpec == Init /\ [][CtlNext]_vars

CtlLiveSpec == CtlSpec /\ WF_vars(Continuations)

\* ---- permissions: can_use_tool requests for every kind of tool under every
\* combination of permission mode and callback, answered by initialize() or by
\* the pump, the callback allowing, denying or throwing.

PermInit ==
    InitWith([permissionMode : PermissionModes, hasCallback : BOOLEAN, tools : {{}}])

PermLine ==
    WorkerWrites({InitMessage(wireCount + 1)}
                 \cup {CanUseToolRequest(<<"req", wireCount + 1>>, t) : t \in ToolNames},
                 MaxPermWire)

PermNext ==
    \/ Initialize
    \/ InitializeConnected
    \/ InitializeInit
    \/ \E r \in Readers : ControlRequest(r)
    \/ \E r \in Readers : CallbackSettles(r)
    \/ \E r \in Readers : ReaderEnd(r)
    \/ PumpStreamMessage
    \/ PumpFinally
    \/ Close
    \/ PermLine
    \/ ProcessClose
    \/ ProcessError

PermSpec == PermInit /\ [][PermNext]_vars

\* ---- the output buffer: a ready session whose pump pushes the events of a
\* long turn while the stream() iterations pop a few of them.

\* The turn of the buffer test: assistant messages msg-1 .. msg-120, a result.
assistantCount == MAX_BUFFERED_STREAM_MESSAGES + 20

BufferLine(n) ==
    IF n = assistantCount + 1 THEN ResultMessage(n) ELSE AssistantMessage(n)

\* The state when initialize() has returned: the worker runs, the init
\* envelope was consumed and the pump is blocked in read().
BufInit ==
    /\ worker = "running"
    /\ wireCount = 1
    /\ process = TRUE
    /\ closed = FALSE
    /\ messageQueue = <<>>
    /\ messageResolvers = <<"pump">>
    /\ stdin = <<Written("control_request", "initialize", <<"init", 1>>, "-", "-")>>
    /\ options = [permissionMode |-> "default", hasCallback |-> FALSE, tools |-> {}]
    /\ initialized = TRUE
    /\ agentId = 1
    /\ streamQueue = <<>>
    /\ streamResolvers = <<>>
    /\ pumpPromise = TRUE
    /\ pumpClosed = FALSE
    /\ droppedStreamMessages = 0
    /\ controlResponseWaiters = {}
    /\ reader = [r \in Readers |->
                    [pc |-> IF r = "pump" THEN "wait" ELSE "done", msg |-> NULL]]
    /\ consumer = [c \in Consumers |-> [pc |-> "new", last |-> "none"]]
    /\ list = [l \in Lists |-> [pc |-> "idle", outcome |-> <<>>]]
    /\ yielded = <<>>
    /\ resolved = [l \in Lists |-> 0]
    /\ callbacks = {}
    /\ asked = {}
    /\ pushed = 0
    /\ pops = 0
    /\ aborts = <<>>

\* The pump reads the worker's next line, transforms it and enqueues the event.
BufferPush ==
    /\ pushed < MaxPush
    /\ pushed' = pushed + 1
    /\ Enqueue(transformMessage(BufferLine(pushed + 1)))
    /\ UNCHANGED <<worker, wireCount, transportVars, options, initialized, agentId,
                   pumpPromise, pumpClosed, controlResponseWaiters, reader, list,
                   resolved, callbacks, asked, pops, aborts>>

\* A stream() iteration (a new one if the last has ended) asks for its next event.
BufferPop(c) ==
    /\ pops < MaxPops
    /\ pops' = pops + 1
    /\ consumer[c].pc \in {"new", "idle", "done"}
    /\ Pull(c, IF consumer[c].pc = "idle" THEN consumer[c]
               ELSE [pc |-> "new", last |-> "none"], pumpClosed)
    /\ UNCHANGED <<worker, wireCount, transportVars, options, initialized, agentId,
                   pumpPromise, pumpClosed, droppedStreamMessages,
                   controlResponseWaiters, reader, list, resolved, callbacks, asked,
                   pushed, aborts>>

BufNext ==
    \/ BufferPush
    \/ \E c \in Consumers : BufferPop(c)

BufSpec == BufInit /\ [][BufNext]_vars

\* ---- inbound control requests: tool approvals and external-tool executions
\* among a turn's events, answered by initialize() or by the pump, with a
\* stream() iteration that the host may start at any time.

ReqInit ==
    InitWith([permissionMode : {"default"}, hasCallback : {TRUE},
              tools : {ExternalTools}])

ReqLine ==
    WorkerWrites({InitMessage(wireCount + 1), AssistantMessage(wireCount + 1),
                  CanUseToolRequest(<<"req", wireCount + 1>>, "Bash")}
                 \cup {ExecuteExternalToolRequest(<<"req", wireCount + 1>>, t) :
                            t \in ExternalToolNames}, MaxReqWire)

ReqNext ==
    \/ Initialize
    \/ InitializeConnected
    \/ InitializeInit
    \/ InitializeSkip
    \/ \E r \in Readers : ControlRequest(r)
    \/ \E r \in Readers : CallbackSettles(r)
    \/ \E r \in Readers : ExecuteSettles(r)
    \/ \E r \in Readers : ReaderEnd(r)
    \/ PumpStreamMessage
    \/ PumpFinally
    \/ StreamCall(1)
    \/ StreamNext(1)
    \/ Close
    \/ ReqLine
    \/ ProcessClose
    \/ ProcessError

ReqSpec == ReqInit /\ [][ReqNext]_vars

\* The list_messages control request of call l is on the worker's stdin.
Issued(l) ==
    \E i \in DOMAIN stdin :
        stdin[i].sub = "list_messages" /\ stdin[i].rid = ListRequestId(l)

\* ---- draining: a ready session whose stream() iterations drain a turn's
\* events while listMessages() calls are issued and the worker answers them.

\* A response to call l is on its way to the pump.
ResponseInFlight(l) ==
    \/ \E i \in DOMAIN messageQueue :
            messageQueue[i].type = "control_response"
                /\ messageQueue[i].rid = ListRequestId(l)
    \/ reader["pump"].msg.type = "control_response"
            /\ reader["pump"].msg.rid = ListRequestId(l)

\* The worker answers the list_messages request of call l, once.
WorkerAnswers(l) ==
    /\ worker = "running"
    /\ wireCount < MaxDrainWire
    /\ Issued(l)
    /\ list[l].pc = "await"
    /\ ~ResponseInFlight(l)
    /\ wireCount' = wireCount + 1
    /\ \E sub \in {"success", "error"} : handleMessage(ControlResponse(ListRequestId(l), sub))
    /\ UNCHANGED <<worker, process, closed, stdin, sessionVars, consumer, list,
                   historyVars>>

DrainLine ==
    WorkerWrites({AssistantMessage(wireCount + 1), ResultMessage(wireCount + 1)},
                 MaxDrainWire)

DrainNext ==
    \/ PumpControlResponse
    \/ PumpStreamMessage
    \/ \E c \in Consumers : StreamCall(c)
    \/ \E c \in Consumers : StreamNext(c)
    \/ \E l \in Lists : ListMessages(l)
    \/ \E l \in Lists : WorkerAnswers(l)
    \/ DrainLine

DrainSpec == BufInit /\ [][DrainNext]_vars

\* ---- the pump alone: a ready session that no stream() iteration drains;
\* the worker writes more events than the buffer holds and then asks for
\* tool approvals.

\* The state when initialize() has returned, with the options drawn from `opts`.
ReadyWith(opts) ==
    /\ worker = "running"
    /\ wireCount = 1
    /\ process = TRUE
    /\ closed = FALSE
    /\ messageQueue = <<>>
    /\ messageResolvers = <<"pump">>
    /\ stdin = <<Written("control_request", "initialize", <<"init", 1>>, "-", "-")>>
    /\ options \in opts
    /\ initialized = TRUE
    /\ agentId = 1
    /\ streamQueue = <<>>
    /\ streamResolvers = <<>>
    /\ pumpPromise = TRUE
    /\ pumpClosed = FALSE
    /\ droppedStreamMessages = 0
    /\ controlResponseWaiters = {}
    /\ reader = [r \in Readers |->
                    [pc |-> IF r = "pump" THEN "wait" ELSE "done", msg |-> NULL]]
    /\ consumer = [c \in Consumers |-> [pc |-> "new", last |-> "none"]]
    /\ list = [l \in Lists |-> [pc |-> "idle", outcome |-> <<>>]]
    /\ yielded = <<>>
    /\ resolved = [l \in Lists |-> 0]
    /\ callbacks = {}
    /\ asked = {}
    /\ pushed = 0
    /\ pops = 0
    /\ aborts = <<>>

PumpInit == ReadyWith([permissionMode : {"default"}, hasCallback : BOOLEAN, tools : {{}}])

\* The worker's line n: one event more than the buffer holds, then requests.
PumpLine(n) ==
    IF n <= MAX_BUFFERED_STREAM_MESSAGES + 2
    THEN AssistantMessage(n)
    ELSE CanUseToolRequest(<<"req", n>>, "Bash")

PumpWorkerLine == WorkerWrites({PumpLine(wireCount + 1)}, MaxPumpWire)

PumpNext ==
    \/ \E r \in Readers : ControlRequest(r)
    \/ \E r \in Readers : CallbackSettles(r)
    \/ \E r \in Readers : ReaderEnd(r)
    \/ PumpStreamMessage
    \/ PumpFinally
    \/ Close
    \/ PumpWorkerLine
    \/ ProcessClose

PumpSpec == PumpInit /\ [][PumpNext]_vars

\* The pump's continuations run and the host callback settles.
PumpLiveSpec == PumpSpec /\ WF_vars(Continuations) /\ WF_vars(CallbackReturns)

\* ---- turns on a ready session: events, results and tool approvals, two
\* stream() iterations that may follow one another, the worker exiting, the
\* host closing.

TurnInit == ReadyWith([permissionMode : {"default"}, hasCallback : {TRUE}, tools : {{}}])

TurnLine ==
    WorkerWrites({AssistantMessage(wireCount + 1), ResultMessage(wireCount + 1),
                  CanUseToolRequest(<<"req", wireCount + 1>>, "Bash")}, MaxTurnWire)

TurnNext ==
    \/ \E r \in Readers : ControlRequest(r)
    \/ \E r \in Readers : CallbackSettles(r)
    \/ \E r \in Readers : ReaderEnd(r)
    \/ PumpStreamMessage
    \/ PumpFinally
    \/ \E c \in Consumers : StreamCall(c)
    \/ \E c \in Consumers : StreamNext(c)
    \/ Close
    \/ TurnLine
    \/ ProcessClose

TurnSpec == TurnInit /\ [][TurnNext]_vars

\* ---- host calls in any order on a new session: initialize(), send(),
\* stream(), listMessages(), abort() and close(), the worker writing init
\* envelopes and events, exiting or failing.

HostLine ==
    WorkerWrites({InitMessage(wireCount + 1), AssistantMessage(wireCount + 1)}, MaxHostWire)

HostNext ==
    \/ Initialize
    \/ InitializeRejected
    \/ InitializeConnected
    \/ InitializeInit
    \/ InitializeSkip
    \/ Send
    \/ AutoInitializeConnected
    \/ AutoInitializeInit
    \/ AutoInitializeSkip
    \/ SendContinues
    \/ \E r \in Readers : ReaderEnd(r)
    \/ PumpStreamMessage
    \/ PumpFinally
    \/ StreamCall(1)
    \/ StreamNext(1)
    \/ ListMessages(1)
    \/ Abort
    \/ Close
    \/ HostLine
    \/ ProcessClose
    \/ ProcessError

HostSpec == Init /\ [][HostNext]_vars

\* ---- tool calls: the worker streams the arguments of tool calls in
\* fragments, with or without the call id and the position, to the pump of a
\* ready session.

ToolLine ==
    WorkerWrites({ToolCallMessage(id, index, text, wireCount + 1) :
                        id \in CallIds \cup {UNDEFINED},
                        index \in {<<>>} \cup {<<p>> : p \in Positions},
                        text \in FragmentTexts}
                 \cup {ReasoningMessage(wireCount + 1)}, MaxToolWire)

ToolNext ==
    \/ PumpStreamMessage
    \/ ToolLine

ToolSpec == TurnInit /\ [][ToolNext]_vars

\* ---- request ids: on a ready session the host calls abort() and
\* listMessages() in quick succession, the worker answers, the host closes.

AbortBurst == AbortWithin(MaxBurst)

IdNext ==
    \/ AbortBurst
    \/ \E l \in Lists : ListMessages(l)
    \/ \E l \in Lists : WorkerAnswers(l)
    \/ PumpControlResponse
    \/ \E r \in Readers : ReaderEnd(r)
    \/ PumpFinally
    \/ Close

IdSpec == TurnInit /\ [][IdNext]_vars

\* ---- routing: on a ready session two listMessages() calls are outstanding
\* while the worker writes control responses in any order: for either call,
\* for an id no call uses, without an id; and events for a stream() iteration.

\* A request id no call of the session has drawn.
UnknownRequestId == <<"list", 0>>

RouteLine ==
    WorkerWrites({ControlResponse(rid, sub) :
                        rid \in {ListRequestId(l) : l \in Lists} \cup {UnknownRequestId, <<>>},
                        sub \in {"success", "error"}}
                 \cup {AssistantMessage(wireCount + 1)}, MaxRouteWire)

RouteNext ==
    \/ PumpControlResponse
    \/ PumpStreamMessage
    \/ \E l \in Lists : ListMessages(l)
    \/ StreamCall(1)
    \/ StreamNext(1)
    \/ RouteLine

RouteSpec == TurnInit /\ [][RouteNext]_vars

\* ---- requests during initialize(): the worker asks for tool approvals and
\* external tool executions before and after it writes the init envelope; the
\* host calls initialize() and later close(), and no stream() before that.

InlineNext ==
    \/ Initialize
    \/ InitializeConnected
    \/ InitializeInit
    \/ InitializeSkip
    \/ \E r \in Readers : ControlRequest(r)
    \/ \E r \in Readers : CallbackSettles(r)
    \/ \E r \in Readers : ExecuteSettles(r)
    \/ \E r \in Readers : ReaderEnd(r)
    \/ PumpStreamMessage
    \/ PumpFinally
    \/ Close
    \/ ReqLine
    \/ ProcessClose
    \/ ProcessError

InlineSpec == ReqInit /\ [][InlineNext]_vars

\* Continuations run, the host callback and the tool's execute() settle.
InlineLiveSpec ==
    InlineSpec /\ WF_vars(Continuations) /\ WF_vars(CallbackReturns) /\ WF_vars(ExecuteReturns)

\* ---- who runs the pump: initialize(), stream(), listMessages() and close()
\* in any order on a new session, the worker writing init envelopes, events
\* and control responses, exiting or failing.

LifeLine ==
    WorkerWrites({InitMessage(wireCount + 1), AssistantMessage(wireCount + 1),
                  ControlResponse(ListRequestId(1), "success")}, MaxLifeWire)

LifeNext ==
    \/ Initialize
    \/ InitializeConnected
    \/ InitializeInit
    \/ InitializeSkip
    \/ \E r \in Readers : ReaderEnd(r)
    \/ PumpControlResponse
    \/ PumpStreamMessage
    \/ PumpFinally
    \/ \E c \in Consumers : StreamCall(c)
    \/ \E c \in Consumers : StreamNext(c)
    \/ ListMessages(1)
    \/ Close
    \/ LifeLine
    \/ ProcessClose
    \/ ProcessError

LifeSpec == Init /\ [][LifeNext]_vars

\* ---- calls on a session that may be gone: initialize(), send(),
\* listMessages(), abort() and close() in any order on a new session with no
\* stream() iteration, the worker writing init envelopes and events, exiting or
\* failing.

GoneLine ==
    WorkerWrites({InitMessage(wireCount + 1), AssistantMessage(wireCount + 1)}, MaxGoneWire)

GoneNext ==
    \/ Initialize
    \/ InitializeConnected
    \/ InitializeInit
    \/ InitializeSkip
    \/ Send
    \/ AutoInitializeConnected
    \/ AutoInitializeInit
    \/ AutoInitializeSkip
    \/ SendContinues
    \/ \E r \in Readers : ReaderEnd(r)
    \/ PumpStreamMessage
    \/ PumpFinally
    \/ ListMessages(1)
    \/ AbortWithin(MaxGoneAborts)
    \/ AbortThrows(MaxGoneAborts)
    \/ Close
    \/ GoneLine
    \/ ProcessClose
    \/ ProcessError

GoneSpec == Init /\ [][GoneNext]_vars

\* ---- raw stdout lines: on a ready session the worker writes envelopes,
\* blank lines and lines that are no JSON, while one stream() iteration runs.

RawLine ==
    WorkerWritesLine({Serialized(AssistantMessage(wireCount + 1)),
                      Serialized(ResultMessage(wireCount + 1)),
                      BlankLine, NullLine, GarbageLine}, MaxLineWire)

RawNext ==
    \/ PumpStreamMessage
    \/ StreamCall(1)
    \/ StreamNext(1)
    \/ RawLine

RawSpec == TurnInit /\ [][RawNext]_vars

\* ---- the classifier: on a ready session the worker writes error, retry,
\* result, stream-event and tool-return envelopes, envelopes of kinds the classifier does not know and
\* control requests of a subtype the session does not handle, while one
\* stream() iteration runs.

ClassLine ==
    WorkerWrites({ErrorMessage(wireCount + 1), RetryMessage(wireCount + 1),
                  ResultMessage(wireCount + 1), StreamEventMessage(wireCount + 1),
                  ToolReturnMessage(wireCount + 1), UserMessage(wireCount + 1),
                  HeartbeatMessage(wireCount + 1),
                  UnsupportedRequest(<<"req", wireCount + 1>>)}, MaxClassWire)

ClassNext ==
    \/ \E r \in Readers : ControlRequest(r)
    \/ PumpStreamMessage
    \/ StreamCall(1)
    \/ StreamNext(1)
    \/ ClassLine

ClassSpec == TurnInit /\ [][ClassNext]_vars

\* ---- tool-call argument texts: on a ready session the worker writes tool
\* calls and approval requests whose argument text is or is not JSON, while
\* one stream() iteration runs.

ArgsLine ==
    WorkerWrites({ToolCallMessage("call-1", <<>>, text, wireCount + 1) : text \in FragmentTexts}
                 \cup {ApprovalRequestMessage("call-2", text, wireCount + 1) :
                            text \in FragmentTexts}
                 \cup {ReasoningMessage(wireCount + 1)}, MaxArgsWire)

ArgsNext ==
    \/ PumpStreamMessage
    \/ StreamCall(1)
    \/ StreamNext(1)
    \/ ArgsLine

ArgsSpec == TurnInit /\ [][ArgsNext]_vars

\* ------------------------------------------------------------------ claims

\* C1: once the worker has exited, a stream() iteration that is suspended in
\* nextBufferedMessage() is eventually released (it gets a buffered event or
\* the end of the stream), and the pump's read loop ends.
C1_StreamReleasedAfterExit ==
    /\ \A c \in Consumers :
        (worker = "exited" /\ consumer[c].pc = "wait") ~> (consumer[c].pc # "wait")
    /\ (worker = "exited") ~> (reader["pump"].pc \in {"none", "done"})

\* The worker exited while iteration 1 was suspended and the pump was reading:
\* the pump's loop has ended and its finally is due.
C1_Witness ==
    /\ worker = "exited"
    /\ process
    /\ consumer[1].pc = "wait"
    /\ reader["pump"].pc = "finally"

\* C4: once the transport has seen the end of the worker (a process "close" or
\* "error" event, or close()), no reader stays blocked in read(): the readers
\* blocked at that moment have been released with end.
C4_NoReaderBlockedOnceClosed == closed => messageResolvers = <<>>

\* C5: when the worker has died and a stream() iteration that yielded events
\* has ended, the last event it yielded is a result or an error.
C5_StreamEndsWithResultOrError ==
    \A c \in Consumers :
        (worker = "exited" /\ consumer[c].pc = "done" /\ consumer[c].last # "none")
            => consumer[c].last \in {"result", "error"}

\* The session is over: the worker has exited, or the pump has ended.
SessionOver ==
    worker = "exited" \/ pumpClosed \/ reader["pump"].pc \in {"finally", "done"}

C3_ResolvesExactlyOnce ==
    \A l \in Lists :
        /\ resolved[l] <= 1
        /\ resolved[l] = 1 => ~HasWaiter(l)
        /\ Issued(l) =>
            /\ (resolved[l] = 1) <=> (list[l].pc \in {"returned", "threw"})
            /\ (resolved[l] = 0) <=> (list[l].pc = "await")
            /\ list[l].pc = "await" => <<ListRequestId(l), l>> \in controlResponseWaiters
            /\ list[l].pc = "returned" => list[l].outcome = <<"payload", ListRequestId(l)>>
            /\ list[l].pc = "threw" =>
                    list[l].outcome \in {<<"error", ListRequestId(l)>>, <<"session closed">>}
            /\ pumpClosed => resolved[l] = 1

\* Call 1 returned the payload of its response, a second response with the
\* same id was read and dropped, and then the host closed.
C3_Witness ==
    /\ list[1] = [pc |-> "returned", outcome |-> <<"payload", ListRequestId(1)>>]
    /\ resolved[1] = 1
    /\ wireCount = MaxCtlWire
    /\ messageQueue = <<>>
    /\ reader["pump"].pc = "done"
    /\ ~process

\* The control responses written so far.
Responses == {w \in Range(stdin) : w.type = "control_response"}

\* The tool named by the can_use_tool request with id rid.
ToolOf(rid) == (CHOOSE m \in asked : m.rid = rid).tool

\* The host callback was invoked for the request with id rid.
Invoked(rid) == \E o \in CallbackOutcomes : <<rid, o>> \in callbacks

\* C8: every can_use_tool response written carries the decision of the ordered
\* rules for its tool, the permission mode and the callback: (1) human input
\* and no callback: deny "No canUseTool callback registered"; (2) bypass and no
\* human input: allow, the callback not invoked; (3) else with a callback: the
\* callback's allow or deny; (4) else auto-allow tool: allow; (5) else deny
\* "No canUseTool callback registered".
C8_DecisionFollowsOrderedRules ==
    \A w \in Responses :
        LET human == ToolOf(w.rid) \in {"AskUserQuestion", "AskAndPlan"}
            auto == ToolOf(w.rid) \in {"EnterPlanMode", "AskAndPlan"}
            bypass == options.permissionMode = "bypassPermissions"
            cb == options.hasCallback
            denied == w.behavior = "deny"
                        /\ w.message = "No canUseTool callback registered"
        IN  /\ (human /\ ~cb) => (denied /\ ~Invoked(w.rid))
            /\ (~human /\ bypass) => (w.behavior = "allow" /\ ~Invoked(w.rid))
            /\ (cb /\ (human \/ ~bypass)) =>
                    \/ <<w.rid, "allow">> \in callbacks /\ w.behavior = "allow"
                    \/ /\ \E o \in CallbackOutcomes \ {"allow"} : <<w.rid, o>> \in callbacks
                       /\ w.behavior = "deny"
            /\ (~cb /\ ~human /\ ~bypass /\ auto) => (w.behavior = "allow" /\ ~Invoked(w.rid))
            /\ (~cb /\ ~human /\ ~bypass /\ ~auto) => (denied /\ ~Invoked(w.rid))

\* Default mode without a callback: EnterPlanMode was allowed by rule (4) and
\* Bash denied by rule (5).
C8_Witness ==
    /\ options = [permissionMode |-> "default", hasCallback |-> FALSE, tools |-> {}]
    /\ \E w \in Responses : ToolOf(w.rid) = "EnterPlanMode" /\ w.behavior = "allow"
    /\ \E w \in Responses : ToolOf(w.rid) = "Bash" /\ w.behavior = "deny"

\* C9: in every mode an allow is written for a tool that requires human input
\* only if the callback was invoked for that request and returned allow; with
\* no callback such a tool is denied.
C9_HumanInputNeverAutoAllowed ==
    \A w \in Responses :
        requiresRuntimeUserInput(ToolOf(w.rid)) =>
            /\ w.behavior = "allow" => <<w.rid, "allow">> \in callbacks
            /\ ~options.hasCallback => w.behavior = "deny"

\* Bypass mode with a callback: AskUserQuestion was put to the callback, which
\* denied it, and a tool in both policy sets was allowed by the callback.
C9_Witness ==
    /\ options = [permissionMode |-> "bypassPermissions", hasCallback |-> TRUE,
                 tools |-> {}]
    /\ \E w \in Responses : ToolOf(w.rid) = "AskUserQuestion" /\ w.behavior = "deny"
    /\ \E w \in Responses : ToolOf(w.rid) = "AskAndPlan" /\ w.behavior = "allow"

\* C10: when the callback throws for a request and the transport is open, the
\* same step writes the control response for that request id with behaviour
\* deny and the exception's message ("Callback error" if the thrown value is
\* not an Error), and the reader goes on to the next envelope.
C10_ThrowIsAnsweredWithDeny ==
    [][\A r \in Readers : \A o \in {"throw", "throwValue"} :
        (/\ reader[r].pc = "callback"
         /\ <<reader[r].msg.rid, o>> \in callbacks' \ callbacks
         /\ ~writeThrows)
        => /\ stdin' = Append(stdin, Written("control_response", "success",
                            reader[r].msg.rid, "deny",
                            IF o = "throw" THEN "err.message" ELSE "Callback error"))
           /\ \/ reader'[r].pc = "wait"
              \/ reader'[r].pc = "have" /\ reader'[r].msg # NULL]_vars

\* The pump answered a request whose callback threw with the deny, and then
\* answered the next request.
C10_Witness ==
    /\ initialized
    /\ Len(stdin) = 3
    /\ stdin[2] = Written("control_response", "success", <<"req", 2>>, "deny", "err.message")
    /\ <<<<"req", 2>>, "throw">> \in callbacks
    /\ stdin[3].rid = <<"req", 3>>

\* C6: with no pop so far, the buffer holds the most recent
\* min(pushed, capacity) events in the order they were pushed, and the dropped
\* counter is the number of events beyond the capacity: the oldest were evicted.
C6_KeepsMostRecentInOrder ==
    pops = 0 =>
        LET K == MAX_BUFFERED_STREAM_MESSAGES
            first == IF pushed > K THEN pushed - K ELSE 0
        IN  /\ Len(streamQueue) = pushed - first
            /\ \A i \in 1..Len(streamQueue) :
                    streamQueue[i] = transformMessage(BufferLine(first + i))
            /\ droppedStreamMessages = first

\* The 120 assistant messages and the result were pushed with nothing popped:
\* the buffer holds msg-22 .. msg-120 and the result, and 21 were dropped.
C6_Witness ==
    /\ pushed = assistantCount + 1
    /\ pops = 0
    /\ Len(streamQueue) = 100
    /\ streamQueue[1] = SDKMessage("assistant", 22)
    /\ streamQueue[99] = SDKMessage("assistant", 120)
    /\ streamQueue[100].type = "result"
    /\ droppedStreamMessages = 21

\* C7: the output buffer never holds more events than its capacity.
C7_BufferWithinCapacity == Len(streamQueue) <= MAX_BUFFERED_STREAM_MESSAGES

\* Pushes met a full buffer after a pop had made room: the buffer is full
\* again and events were dropped.
C7_Witness ==
    /\ Len(streamQueue) = MAX_BUFFERED_STREAM_MESSAGES
    /\ droppedStreamMessages > 0
    /\ pops = MaxPops
    /\ pushed = MaxPush

\* The request m of the worker has been taken off the wire and its handling
\* has ended.
Handled(m) ==
    /\ m \notin Range(messageQueue)
    /\ \A r \in Readers : reader[r].msg # m

\* C11: the control responses written answer the worker's can_use_tool and
\* execute_external_tool requests, at most one per request id and in the order
\* of the requests; a request handled with the transport open has its
\* response; an external tool result has is_error set exactly when the tool is
\* not registered or its execute() threw.
C11_OneResponsePerRequestInOrder ==
    /\ \A i, j \in DOMAIN stdin :
        (i < j /\ stdin[i].type = "control_response" /\ stdin[j].type = "control_response")
            => stdin[i].rid[2] < stdin[j].rid[2]
    /\ \A w \in Responses :
        \E m \in asked :
            /\ m.rid = w.rid
            /\ (m.sub = "can_use_tool") <=> (w.sub = "success")
            /\ (m.sub = "execute_external_tool") =>
                    ((w.message = "is_error") <=>
                        (m.tool \notin options.tools
                            \/ <<m.rid, "executeThrew">> \in callbacks))
    /\ \A m \in asked :
        (~closed /\ process /\ Handled(m)) => \E w \in Responses : w.rid = m.rid

\* The events on their way to the consumers, oldest first: those yielded,
\* those buffered, the one the pump holds and those the transport has queued.
EventsOf(envelopes) ==
    SelectSeq(envelopes, LAMBDA m : m.type \notin {"control_request", "control_response"})

HeldByPump ==
    IF reader["pump"].pc = "have" /\ reader["pump"].msg # NULL
    THEN EventsOf(<<reader["pump"].msg>>)
    ELSE <<>>

StreamOrder ==
    [i \in 1..Len(yielded) |-> yielded[i][2].n] \o [i \in 1..Len(streamQueue) |-> streamQueue[i].n]
        \o [i \in 1..Len(HeldByPump) |-> HeldByPump[i].n]
        \o [i \in 1..Len(EventsOf(messageQueue)) |-> EventsOf(messageQueue)[i].n]

\* Responses the worker has written to the listMessages() calls.
ResponsesSent ==
    Cardinality({l \in Lists : Issued(l) /\ (list[l].pc # "await" \/ ResponseInFlight(l))})

\* C12: with listMessages() calls issued while stream() iterations drain, no
\* control response is yielded or buffered as a stream event; the stream events
\* yielded, buffered and still to be pumped are in the order of the worker's
\* lines; and none is lost: with the responses they account for every line the
\* worker wrote.
C12_ListMessagesLeavesStreamIntact ==
    /\ \A i \in DOMAIN yielded : yielded[i][2].type \in {"assistant", "result"}
    /\ \A i \in DOMAIN streamQueue : streamQueue[i].type \in {"assistant", "result"}
    /\ \A i, j \in DOMAIN StreamOrder : i < j => StreamOrder[i] < StreamOrder[j]
    /\ Len(StreamOrder) + ResponsesSent = wireCount - 1

\* Iteration 1 yielded the worker's lines 2 and 4; line 3 was the response to
\* call 1, which has returned its payload.
C12_Witness ==
    /\ list[1].pc = "returned"
    /\ Len(yielded) = 2
    /\ yielded[1] = <<1, SDKMessage("assistant", 2)>>
    /\ yielded[2] = <<1, SDKMessage("assistant", 4)>>

\* The request with id rid has its control response on the worker's stdin.
Answered(rid) == \E w \in Responses : w.rid = rid

\* C13: on a ready session that no stream() iteration drains, every
\* can_use_tool request the worker writes, also after more events than the
\* buffer holds, is eventually answered unless the transport closes first.
C13_AnsweredWithoutConsumer ==
    \A n \in (MAX_BUFFERED_STREAM_MESSAGES + 3)..MaxPumpWire :
        (\E m \in asked : m.rid = <<"req", n>>) ~> (Answered(<<"req", n>>) \/ closed)

\* 101 events went into the buffer of 100, one was dropped, nothing was
\* popped, and the request that followed them was answered by the callback.
C13_Witness ==
    /\ \A c \in Consumers : consumer[c].pc = "new"
    /\ Len(streamQueue) = MAX_BUFFERED_STREAM_MESSAGES
    /\ droppedStreamMessages = 1
    /\ options.hasCallback
    /\ Answered(<<"req", MAX_BUFFERED_STREAM_MESSAGES + 3>>)
    /\ ~closed

\* The worker's lines whose events the pump has handed to the output buffer.
Pushed ==
    {yielded[i][2].n : i \in DOMAIN yielded} \cup {streamQueue[i].n : i \in DOMAIN streamQueue}

SessionClosed == closed /\ ~process /\ pumpClosed

\* The session's state as its fields give it.
SessionState ==
    IF SessionClosed THEN "closed"
    ELSE IF initialized THEN "ready"
    ELSE IF reader["init"].pc # "idle" \/ reader["send"].pc # "idle" THEN "initializing"
    ELSE "uninitialized"

StateRank(state) ==
    CASE state = "uninitialized" -> 0
      [] state = "initializing" -> 1
      [] state = "ready" -> 2
      [] state = "closed" -> 3

\* C15: no step of initialize(), send(), stream(), listMessages(), abort() or
\* close(), of the pump or of the worker moves the session's state backwards;
\* in particular a closed session stays closed.
C15_StateOnlyMovesForward ==
    [][StateRank(SessionState') >= StateRank(SessionState)]_vars

\* The initialize control requests on the worker's stdin.
InitializeRequests == {i \in DOMAIN stdin : stdin[i].sub = "initialize"}

\* C16: however initialize() is called (by the host, or by send() on a session
\* not yet initialized), whether another initialize() is in progress, has
\* completed, or close() was called, at most one initialize request is ever
\* written and an identity once set does not change.
C16_OneInitializeTakesEffect ==
    [][/\ Cardinality(InitializeRequests') <= 1
       /\ agentId # 0 => agentId' = agentId]_vars

\* C17: a listMessages() call on a session that is not initialized throws
\* "not initialized" and changes nothing else: no waiter is registered and
\* no control request is written.
C17_ListMessagesBeforeReadyRejected ==
    [][\A l \in Lists :
        (list[l].pc = "idle" /\ list'[l] # list[l] /\ ~initialized) =>
            /\ list'[l] = [pc |-> "threw", outcome |-> <<"not initialized">>]
            /\ \A k \in Lists \ {l} : list'[k] = list[k]
            /\ UNCHANGED <<worker, wireCount, transportVars, sessionVars, reader, consumer,
                           historyVars>>]_vars

\* listMessages() was called, and rejected, while initialize() waits for the
\* init envelope.
C17_Witness ==
    /\ ~initialized
    /\ reader["init"].pc = "wait"
    /\ list[1] = [pc |-> "threw", outcome |-> <<"not initialized">>]
    /\ controlResponseWaiters = {}
    /\ \A i \in DOMAIN stdin : stdin[i].sub # "list_messages"

\* The step yields a result event to the stream() iteration c.
YieldsResultTo(c) ==
    /\ Len(yielded') = Len(yielded) + 1
    /\ yielded'[Len(yielded')][1] = c
    /\ yielded'[Len(yielded')][2].type = "result"

\* C18: the step that yields a result to a stream() iteration ends that
\* iteration and leaves the transport and the pump open or closed as they
\* were; the events yielded so far, buffered and still to be pumped stay in
\* the order of the worker's lines, across iterations, and with the control
\* requests they account for every line the worker wrote after init.
C18_StreamStopsAtResultOnly ==
    [][/\ \A c \in Consumers :
            YieldsResultTo(c) =>
                /\ consumer'[c].pc = "done"
                /\ c \notin Range(streamResolvers')
                /\ UNCHANGED <<closed, process, pumpClosed, worker>>
       /\ \A i, j \in DOMAIN StreamOrder' : i < j => StreamOrder'[i] < StreamOrder'[j]
       /\ Len(StreamOrder') + Cardinality(asked') = wireCount' - 1]_vars

\* Three stream() calls of one host loop: the first ended with the result of
\* line 2, and the next ones yielded the lines that followed it.
C18_Witness ==
    /\ Len(yielded) = 3
    /\ yielded[1] = <<1, SDKMessage("result", 2)>>
    /\ yielded[2] = <<1, SDKMessage("assistant", 3)>>
    /\ yielded[3] = <<1, SDKMessage("result", 4)>>
    /\ ~closed

\* The user envelopes on the worker's stdin.
UserEnvelopes == {i \in DOMAIN stdin : stdin[i].type = "user"}

\* C19: a send() writes at most one user envelope, and writes it only on an
\* initialized session (the init envelope has been received) and after an
\* initialize request; it has returned as soon as the envelope is written,
\* and a send() whose initialize() or write failed has written none.
C19_SendInitializesFirst ==
    /\ Cardinality(UserEnvelopes) <= 1
    /\ \A i \in UserEnvelopes : initialized /\ \E j \in InitializeRequests : j < i
    /\ (UserEnvelopes # {}) <=> (reader["send"].pc = "done")
    /\ reader["send"].pc = "failed" => UserEnvelopes = {}

\* send() on a new session: it initialized the session itself, and returned
\* when the worker had written nothing but the init envelope.
C19_Witness ==
    /\ reader["init"].pc = "idle"
    /\ reader["send"].pc = "done"
    /\ stdin = <<Written("control_request", "initialize", <<"init", 1>>, "-", "-"),
                 Written("user", "-", <<>>, "-", "-")>>
    /\ wireCount = 1

\* The transport is closed and detached from the worker, the pump is marked
\* closed, and no reader, stream() iteration or listMessages() call is
\* suspended.
Settled ==
    /\ SessionClosed
    /\ messageResolvers = <<>>
    /\ streamResolvers = <<>>
    /\ controlResponseWaiters = {}
    /\ \A r \in Readers : reader[r].pc # "wait"
    /\ \A c \in Consumers : consumer[c].pc # "wait"
    /\ \A l \in Lists : list[l].pc # "await"

\* C20: every close() ends in a settled state, and a close() in the state a
\* close() has left changes nothing.
C20_CloseIsIdempotent ==
    [][/\ Close => Settled'
       /\ (Settled /\ Close) => UNCHANGED vars]_vars

\* close() on a ready session whose worker is running: the blocked stream()
\* iteration ended and the listMessages() call was rejected.
C20_Witness ==
    /\ Settled
    /\ initialized
    /\ worker = "running"
    /\ consumer[1].pc = "done"
    /\ list[1] = [pc |-> "threw", outcome |-> <<"session closed">>]

\* The tool-call fragments of `set`, in the order the worker wrote them.
InWireOrder(set) ==
    [i \in 1..Cardinality(set) |->
        CHOOSE m \in set : Cardinality({k \in set : k.n < m.n}) = i - 1]

\* The fragments the worker wrote with the explicit call id `id`.
FragmentsOf(id) ==
    InWireOrder({m \in asked : m.sub = "tool_call_message" /\ m.toolCallId = id})

\* The tool_call events in the output buffer that carry the call id `id`.
ToolCallsOf(id) ==
    SelectSeq(streamQueue, LAMBDA e : e.type = "tool_call" /\ e.toolCallId = id)

IsPrefix(s, t) == Len(s) <= Len(t) /\ SubSeq(t, 1, Len(s)) = s

\* The argument text the fragments fs add up to: a fragment that extends the
\* text so far (a cumulative one, or one already taken in) replaces it, any
\* other is appended.
RECURSIVE Accumulated(_)
Accumulated(fs) ==
    IF Len(fs) = 0 THEN <<>>
    ELSE LET acc == Accumulated(SubSeq(fs, 1, Len(fs) - 1))
             new == fs[Len(fs)].arguments
         IN  IF IsPrefix(acc, new) THEN new ELSE acc \o new

\* C21: once the pump has pushed every fragment the worker wrote for a call
\* id, the last tool_call event of that id carries the input parsed from the
\* text its fragments add up to: the last fragment for cumulative fragments,
\* the concatenation for incremental ones, a repeated fragment counted once.
C21_FinalArgumentsAccumulate ==
    \A id \in CallIds :
        (Len(FragmentsOf(id)) > 0 /\ Len(ToolCallsOf(id)) = Len(FragmentsOf(id))) =>
            ToolCallsOf(id)[Len(ToolCallsOf(id))].toolInput
                = JSONparse(Accumulated(FragmentsOf(id)))

\* The fragment of the worker's line n.
FragmentAt(n) == CHOOSE m \in asked : m.sub = "tool_call_message" /\ m.n = n

\* The fragments before line n at position `index` that carry a call id.
Establishing(index, n) ==
    InWireOrder({m \in asked : /\ m.sub = "tool_call_message"
                               /\ m.index = index
                               /\ m.toolCallId # UNDEFINED
                               /\ m.n < n})

\* C22: the tool_call event of a fragment that carries only a position has
\* the call id of the first fragment that carried an id at that position.
C22_PositionResolvesToCallId ==
    \A i \in DOMAIN streamQueue :
        LET e == streamQueue[i]
        IN  (/\ e.type = "tool_call"
             /\ FragmentAt(e.n).toolCallId = UNDEFINED
             /\ FragmentAt(e.n).index # <<>>
             /\ Len(Establishing(FragmentAt(e.n).index, e.n)) > 0) =>
                e.toolCallId = Establishing(FragmentAt(e.n).index, e.n)[1].toolCallId

\* C23: once close() was called or the pump has terminated (pumpClosed is
\* set), no control waiter is registered, whatever is called afterwards.
C23_NoWaiterOutlivesSession == pumpClosed => controlResponseWaiters = {}

\* The control requests the session has written.
ControlRequests == {i \in DOMAIN stdin : stdin[i].type = "control_request"}

\* C24: the ids of the control requests the session has written (initialize,
\* list_messages, interrupt, register_external_tools) are pairwise distinct,
\* and no two listMessages() calls wait under one id.
C24_ControlRequestIdsDistinct ==
    /\ \A i, j \in ControlRequests : i # j => stdin[i].rid # stdin[j].rid
    /\ \A p, q \in controlResponseWaiters : p[1] = q[1] => p = q

\* The pump holds a control response that no registered waiter matches.
HoldsUnmatchedResponse ==
    /\ reader["pump"].pc = "have"
    /\ reader["pump"].msg.type = "control_response"
    /\ \/ reader["pump"].msg.rid = <<>>
       \/ \A p \in controlResponseWaiters : p[1] # reader["pump"].msg.rid

\* The step in which the pump disposes of the envelope it holds: it is the
\* one that moves the pump and neither adds a line nor closes the transport.
PumpStep ==
    /\ wireCount' = wireCount
    /\ closed' = closed
    /\ <<reader, messageQueue, messageResolvers>>' # <<reader, messageQueue, messageResolvers>>

\* C25: the pump's step on a control response without a request id, or whose
\* id matches no registered waiter, leaves the waiters, the listMessages()
\* calls, the output buffer and its consumers as they were, and the pump goes
\* on to its next read.
C25_UnmatchedResponseDropped ==
    [][(HoldsUnmatchedResponse /\ PumpStep) =>
            /\ UNCHANGED <<controlResponseWaiters, list, resolved, streamQueue,
                           streamResolvers, droppedStreamMessages, consumer, yielded,
                           pumpClosed, stdin>>
            /\ reader'["pump"].pc \in {"wait", "have"}
            /\ reader'["pump"].pc = "have" =>
                    reader'["pump"].msg \in Range(messageQueue)]_vars

\* The worker's lines 2 and 3 were control responses that matched nothing:
\* the pump took both and waits for more, call 1 still awaits its response,
\* and nothing reached the stream.
C25_Witness ==
    /\ wireCount = 3
    /\ messageQueue = <<>>
    /\ reader["pump"].pc = "wait"
    /\ list[1].pc = "await"
    /\ controlResponseWaiters = {<<ListRequestId(1), 1>>}
    /\ streamQueue = <<>>
    /\ yielded = <<>>

\* C26: a listMessages() call returns the payload, or throws the error, of the
\* control response that carries its own request id; and the step that
\* resolves one call leaves every other call and its waiter as they were.
C26_WaitersResolveIndependently ==
    [][/\ \A l \in Lists :
            list'[l].pc = "returned" => list'[l].outcome = <<"payload", ListRequestId(l)>>
       /\ \A l \in Lists :
            (list'[l].pc = "threw" /\ list'[l].outcome[1] = "error") =>
                list'[l].outcome = <<"error", ListRequestId(l)>>
       /\ \A l, k \in Lists :
            (l # k /\ list[l].pc = "await" /\ list'[l].pc # "await") =>
                /\ list'[k] = list[k]
                /\ HasWaiter(k)' = HasWaiter(k)]_vars

\* Call 1 was issued before call 2; the response to call 2 came first and
\* resolved it, and call 1 is still registered and pending.
C26_Witness ==
    /\ Len(stdin) = 3
    /\ stdin[2].rid = ListRequestId(1)
    /\ stdin[3].rid = ListRequestId(2)
    /\ list[2] = [pc |-> "returned", outcome |-> <<"payload", ListRequestId(2)>>]
    /\ list[1].pc = "await"
    /\ HasWaiter(1)

\* The position on stdin of the response to the request with id rid, and of
\* the register_external_tools request initialize() writes after init.
ResponseAt(rid) == {i \in DOMAIN stdin : stdin[i].type = "control_response" /\ stdin[i].rid = rid}
RegisterAt == {i \in DOMAIN stdin : stdin[i].sub = "register_external_tools"}

\* The init envelope has reached the transport and initialize() has not yet
\* taken it in.
InitEnvelopeDue ==
    /\ reader["init"].pc \in {"wait", "have", "callback", "execute"}
    /\ \/ \E i \in DOMAIN messageQueue : messageQueue[i].sub = "init"
       \/ reader["init"].pc = "have" /\ reader["init"].msg.sub = "init"

\* C27: once the session is initialized, every can_use_tool or
\* execute_external_tool request the worker wrote before the init envelope has
\* its response on stdin, written before initialize() went on to register the
\* tools; and an init envelope that has arrived leads to initialize()
\* returning, unless the transport closes.
C27_RequestsAnsweredDuringInitialize ==
    /\ [](initialized =>
            \A m \in asked :
                m.rid[2] < agentId =>
                    /\ ResponseAt(m.rid) # {}
                    /\ \A i \in ResponseAt(m.rid) : \A j \in RegisterAt : i < j)
    /\ (InitEnvelopeDue ~> (reader["init"].pc = "done" \/ closed))

\* The worker asked for a tool approval and for an external tool execution
\* and then wrote the init envelope: both were answered and initialize()
\* returned the identity of line 3.
C27_Witness ==
    /\ reader["init"].pc = "done"
    /\ agentId = 3
    /\ \E m \in asked : m.sub = "can_use_tool" /\ m.rid[2] = 1
    /\ \E m \in asked : m.sub = "execute_external_tool" /\ m.rid[2] = 2
    /\ ResponseAt(<<"req", 1>>) # {}
    /\ ResponseAt(<<"req", 2>>) # {}
    /\ ~closed

\* The reads of the transport that are pending for reader r.
PendingReads(r) == {i \in DOMAIN messageResolvers : messageResolvers[i] = r}

\* The step hands an event to the output buffer: it is queued, or a
\* suspended stream() iteration gets it.
PushesEvent ==
    \/ Len(streamQueue') > Len(streamQueue)
    \/ Len(yielded') > Len(yielded) /\ streamQueue' = streamQueue /\ Len(streamQueue) = 0
          /\ Len(streamResolvers') < Len(streamResolvers)

\* C28: the pump has at most one read pending, it is started once (a pump
\* that has ended never runs again, and pumpPromise stays set); an event is
\* pushed only by the step of the pump that holds it; and a control waiter is
\* resolved only by the pump that holds a control response, by the pump's
\* finally, or by close().
C28_SinglePumpOwnsBufferAndWaiters ==
    [][/\ Cardinality(PendingReads("pump")') <= 1
       /\ pumpPromise => pumpPromise'
       /\ reader["pump"].pc \in {"finally", "done"} => reader'["pump"].pc \in {"finally", "done"}
       /\ PushesEvent =>
                /\ reader["pump"].pc = "have"
                /\ reader["pump"].msg # NULL
                /\ reader["pump"].msg.type \notin {"control_request", "control_response"}
                /\ PumpStep
       /\ resolved' # resolved =>
                \/ reader["pump"].pc = "have" /\ reader["pump"].msg.type = "control_response"
                        /\ PumpStep
                \/ reader["pump"].pc = "finally" /\ reader'["pump"].pc = "done"
                \/ closed' /\ ~process' /\ pumpClosed' /\ controlResponseWaiters' = {}]_vars

\* initialize() and two stream() calls were made, each of which calls
\* startBackgroundPump(): one pump read is pending, and both iterations wait
\* on the buffer that pump has fed.
C28_Witness ==
    /\ initialized
    /\ consumer[1].pc = "wait"
    /\ consumer[2].pc = "wait"
    /\ messageResolvers = <<"pump">>
    /\ Len(yielded) = 1

\* C29: initialize() and the pump never both have a read of the transport
\* pending, and while initialize() waits for the init envelope no init
\* envelope has gone to the pump and into the stream.
C29_OneReaderAtATime ==
    /\ ~(PendingReads("init") # {} /\ PendingReads("pump") # {})
    /\ (~initialized /\ reader["init"].pc \in {"wait", "have"}) =>
            /\ \A i \in DOMAIN streamQueue : streamQueue[i].type # "init"
            /\ \A i \in DOMAIN yielded : yielded[i][2].type # "init"

\* The pump holds an event for the output buffer and takes its step while a
\* stream() iteration is suspended in nextBufferedMessage().
PushFindsConsumer ==
    /\ reader["pump"].pc = "have"
    /\ reader["pump"].msg # NULL
    /\ reader["pump"].msg.type \notin {"control_request", "control_response"}
    /\ PumpStep
    /\ Len(streamResolvers) > 0

C31_EventsConserved ==
    /\ [](/\ pushed = Len(yielded) + Len(streamQueue) + droppedStreamMessages
          /\ \A i, j \in DOMAIN yielded :
                i < j => /\ yielded[i][2].n < yielded[j][2].n
                         /\ yielded[j][2].n <= pushed
          /\ \A i \in DOMAIN yielded : yielded[i][2] = transformMessage(BufferLine(yielded[i][2].n)))
    /\ [][droppedStreamMessages' >= droppedStreamMessages]_vars

\* More events were pushed than the buffer holds: some were dropped, some
\* were yielded and the rest is buffered.
C31_Witness ==
    /\ pushed = MaxPush
    /\ droppedStreamMessages > 0
    /\ Len(yielded) = MaxPops
    /\ Len(streamQueue) > 0

\* The step is a call of nextBufferedMessage() by the stream() iteration c.
PopStep(c) ==
    /\ consumer[c].pc \in {"new", "idle", "done"}
    /\ \/ consumer'[c] # consumer[c]
       \/ /\ Len(yielded') = Len(yielded) + 1
          /\ yielded'[Len(yielded')][1] = c

PumpHoldsResponseTo(l) ==
    /\ reader["pump"].pc = "have"
    /\ reader["pump"].msg # NULL
    /\ reader["pump"].msg.type = "control_response"
    /\ reader["pump"].msg.rid = ListRequestId(l)

\* C33: the step of listMessages() that writes the request has its waiter
\* registered when the write is done, and whenever the pump holds the
\* response to a written request whose waiter was never resolved, that
\* waiter is registered.
C33_WaiterRegisteredBeforeWrite ==
    /\ [](\A l \in Lists :
            (Issued(l) /\ PumpHoldsResponseTo(l) /\ resolved[l] = 0) => HasWaiter(l))
    /\ [][\A l \in Lists :
            (~Issued(l) /\ Issued(l)') => <<ListRequestId(l), l>> \in controlResponseWaiters']_vars

\* The pump holds the response to call 1's request, and call 1 awaits its
\* registered waiter.
C33_Witness ==
    /\ PumpHoldsResponseTo(1)
    /\ Issued(1)
    /\ HasWaiter(1)
    /\ resolved[1] = 0
    /\ list[1].pc = "await"

\* C34: the session identity is unset until initialize() has processed the
\* init envelope, and once set it never changes.
C34_IdentitySetOnce ==
    /\ [](agentId # 0 => initialized)
    /\ [][agentId # 0 => agentId' = agentId]_vars

\* C35: once the transport is closed (by close(), by the worker's exit or by
\* its failure) nothing more is written to the worker; a send() made then
\* fails, at once on an initialized session and else at the write of its
\* initialize request; a listMessages() made then throws; and an abort() made
\* then throws.
C35_CallsFailOnceGone ==
    [][closed =>
        /\ stdin' = stdin
        /\ reader'["send"] # reader["send"] =>
              /\ reader["send"].pc = "idle" =>
                    reader'["send"].pc = IF initialized THEN "failed" ELSE "connect"
              /\ reader["send"].pc \in {"connect", "inited"} => reader'["send"].pc = "failed"
        /\ (list[1].pc = "idle" /\ list'[1] # list[1]) => list'[1].pc = "threw"
        /\ aborts' # aborts => aborts' = Append(aborts, "threw")]_vars

\* On an initialized session that was closed, send(), listMessages() and
\* abort() were called: each has failed at its write, and only the initialize
\* request was ever written.
C35_Witness ==
    /\ initialized
    /\ closed
    /\ ~process
    /\ reader["send"].pc = "failed"
    /\ list[1] = [pc |-> "threw", outcome |-> <<"write failed">>]
    /\ aborts = <<"threw">>
    /\ Len(stdin) = 1
    /\ stdin[1].sub = "initialize"

\* C36: an abort() that does not throw appends one interrupt control request
\* to what was written and leaves the transport, the session (its flags,
\* identity, buffer, dropped counter and control waiters) and every task as
\* they were.
C36_AbortOnlyWritesInterrupt ==
    [][aborts' = Append(aborts, "written") =>
        /\ Len(stdin') = Len(stdin) + 1
        /\ SubSeq(stdin', 1, Len(stdin)) = stdin
        /\ stdin'[Len(stdin')].type = "control_request"
        /\ stdin'[Len(stdin')].sub = "interrupt"
        /\ UNCHANGED <<process, closed, messageQueue, messageResolvers, sessionVars,
                       taskVars, yielded, resolved>>]_vars

\* listMessages() wrote its request, then abort() wrote its interrupt: the
\* waiter of listMessages() is still registered and the call still waits,
\* with an event in the buffer.
C36_Witness ==
    /\ aborts = <<"written">>
    /\ Len(stdin) = 3
    /\ stdin[2].sub = "list_messages"
    /\ stdin[3].sub = "interrupt"
    /\ HasWaiter(1)
    /\ list[1].pc = "await"
    /\ resolved[1] = 0
    /\ Len(streamQueue) = 1
    /\ ~closed

\* The wire positions of the envelopes the transport has taken in, from the
\* one yielded first to the one queued last in the transport.
TakenIn ==
    [i \in DOMAIN yielded |-> yielded[i][2].n]
        \o [i \in DOMAIN streamQueue |-> streamQueue[i].n]
        \o (IF reader["pump"].pc = "have" /\ reader["pump"].msg # NULL
            THEN <<reader["pump"].msg.n>> ELSE <<>>)
        \o [i \in DOMAIN messageQueue |-> messageQueue[i].n]

\* The wire positions of the lines that carried no envelope.
Skipped == {m.n : m \in {a \in asked : a.type = "line"}}

\* C37: a line that cannot be parsed changes nothing in the transport, the
\* session or its tasks; the transport stays open and the pump keeps reading;
\* and the envelopes taken in are exactly those of the other lines, in wire
\* order.
C37_MalformedLineSkipped ==
    /\ [](/\ ~closed
          /\ reader["pump"].pc \in {"wait", "have"}
          /\ reader["pump"].pc = "have" => reader["pump"].msg # NULL
          /\ {TakenIn[i] : i \in DOMAIN TakenIn} = (2 .. wireCount) \ Skipped
          /\ \A i, j \in DOMAIN TakenIn : i < j => TakenIn[i] < TakenIn[j])
    /\ [][(\E m \in asked' \ asked : m.type = "line") =>
            UNCHANGED <<transportVars, sessionVars, taskVars, yielded>>]_vars

\* Line 3 was no JSON: the events of lines 2 and 4 were yielded, in that
\* order, and the pump waits for the next line.
C37_Witness ==
    /\ Envelope("line", "garbage", <<>>, "-", 3) \in asked
    /\ Len(yielded) = 2
    /\ yielded[1][2].n = 2
    /\ yielded[2][2].n = 4
    /\ reader["pump"].pc = "wait"
    /\ ~closed

\* The events the pump has pushed and that were not dropped, from the one
\* yielded first to the one buffered last.
Events == [i \in DOMAIN yielded |-> yielded[i][2]] \o streamQueue

\* The envelope the pump holds is of a kind the classifier does not know, or
\* a control request of a subtype the session does not handle.
HoldsUnrecognized ==
    /\ reader["pump"].pc = "have"
    /\ reader["pump"].msg # NULL
    /\ \/ reader["pump"].msg.type = "heartbeat"
       \/ reader["pump"].msg.type = "message" /\ reader["pump"].msg.sub = "user_message"
       \/ reader["pump"].msg.type = "control_request" /\ reader["pump"].msg.sub = "set_model"

FragmentsUpTo(id, n) ==
    InWireOrder({m \in asked : /\ m.sub = "tool_call_message"
                               /\ m.toolCallId = id
                               /\ m.n <= n})

\* C39: each fragment becomes a tool_call event of its own (when the pump has
\* taken in every line, there are as many tool_call events as fragments), and
\* the event of a fragment with a call id carries that id and the input read
\* from the argument text the call's fragments add up to so far.
C39_FragmentsEmittedWithRunningText ==
    /\ (messageQueue = <<>> /\ reader["pump"].pc = "wait") =>
            Cardinality({i \in DOMAIN streamQueue : streamQueue[i].type = "tool_call"})
                = Cardinality({m \in asked : m.sub = "tool_call_message"})
    /\ \A i \in DOMAIN streamQueue :
        LET e == streamQueue[i]
        IN  (e.type = "tool_call" /\ FragmentAt(e.n).toolCallId # UNDEFINED) =>
                /\ e.toolCallId = FragmentAt(e.n).toolCallId
                /\ e.toolInput = JSONparse(Accumulated(FragmentsUpTo(e.toolCallId, e.n)))

\* The pump holds a tool call or an approval request whose argument text
\* lacks its opening or its closing brace.
HoldsUnparseableCall ==
    /\ reader["pump"].pc = "have"
    /\ reader["pump"].msg # NULL
    /\ reader["pump"].msg.sub \in {"tool_call_message", "approval_request_message"}
    /\ LET text == reader["pump"].msg.arguments
       IN  text[1] # "{" \/ text[Len(text)] # "}"

\* C40: the pump's step on a tool call whose argument text is not JSON adds
\* one tool_call event with the call's id and the raw text as its input,
\* writes nothing and leaves the transport open; the pump reads on.
C40_UnparseableArgumentsKeptRaw ==
    /\ [](~closed /\ ~pumpClosed /\ reader["pump"].pc \in {"wait", "have"})
    /\ [][(PumpStep /\ HoldsUnparseableCall) =>
            /\ Len(Events') = Len(Events) + 1
            /\ SubSeq(Events', 1, Len(Events)) = Events
            /\ Events'[Len(Events')].type = "tool_call"
            /\ Events'[Len(Events')].toolCallId = reader["pump"].msg.toolCallId
            /\ Events'[Len(Events')].toolInput
                    = [parsed |-> FALSE, value |-> reader["pump"].msg.arguments]
            /\ reader'["pump"].pc \in {"wait", "have"}
            /\ UNCHANGED <<stdin, closed, pumpClosed>>]_vars

\* An approval request with the text <<h, }>> was yielded as a tool_call
\* event with that raw text, and the event of the next line after it.
C40_Witness ==
    /\ Len(yielded) = 2
    /\ yielded[1][2].type = "tool_call"
    /\ yielded[1][2].tool = "Read"
    /\ yielded[1][2].toolInput = [parsed |-> FALSE, value |-> <<"h", "}">>]
    /\ yielded[2][2].type = "reasoning"
    /\ yielded[2][2].n = yielded[1][2].n + 1

====
